---- MODULE Spec2Model ----
(***************************************************************************)
(* Overlay persistence of kline-pro: the local store adapter and the       *)
(* OverlayStorage facade of the store module, and the overlay lifecycle    *)
(* code of ChartProComponent.                                               *)
(***************************************************************************)
EXTENDS Integers, Sequences, FiniteSets, TLC

VARIABLES
    localStorage,   \* window.localStorage: storage key -> stored text
    foreignUsed,    \* space of the origin's quota taken by data of other keys
    storeAccess,    \* FALSE: every access to localStorage throws (storage denied)
    last,           \* the last call of the store API: what was called, its result
    saved,          \* per symbol: the value of the last save(symbol, x) call the
                    \* store accepted, Void once the key was removed (SpecStore)
    facadeSymbol,   \* OverlayStorage.symbol of an application's facade
    hasProvider,    \* whether that facade was given a CloudSyncProvider
    cloud,          \* the provider's data: symbol -> what was uploaded
    pendingSync,    \* provider calls awaited by syncToCloud / syncFromCloud
    roundTrip,      \* progress of a syncToCloud(); clear(); syncFromCloud() sequence
    enabled,        \* overlayPersistenceEnabled
    mounted,        \* between onMount and onCleanup
    widget,         \* the chart: "null" before onMount, "live", "disposed"
    engine,         \* the overlays the chart holds
    overlayMap,     \* tracked overlays in insertion order: <<[key, val]>>
    storageSymbol,  \* overlayStorage.symbol of the component's facade
    autoSaveIntervalId, \* TRUE when the component holds an interval id
    liveIntervals,  \* number of window intervals set and not cleared
    symbolTicker,   \* symbol().ticker: the ticker of the displayed symbol
    loading,        \* the component's loading flag
    prev,           \* ticker the symbol/period effect returned last, NoPrev at first
    effectSubscribed, \* the symbol/period effect still depends on its signals
    pending,        \* history requests in flight: <<[kind, ticker, doLoad, atSwitch]>>
    nextId,         \* number of ids the chart has generated
    mounts,         \* number of mounts so far
    gone,           \* ids removed by the removal handler whose flush was accepted
    tickSaved,      \* ids drawn by the user and then written by an auto-save tick,
                    \* with no removal and no symbol change since
    drawnHere,      \* ids drawn by the user since the mount and the last change of
                    \* symbol, and not removed by the removal handler
    drawingBarVisible, \* whether the drawing bar is shown
    barLock,        \* the drawing bar's lock switch
    barVisible,     \* the drawing bar's visible switch
    barMode,        \* the drawing bar's mode: "normal" or a magnet mode
    barMagnet,      \* the magnet mode the bar's mode switch turns on
    sideSteps,      \* who took the steps beside the main flow so far (see MaxSideSteps)
    others,         \* further charts of the page whose interval is live:
                    \* <<[symbol, value]>>, what the tick of each writes
    liveOverlay,    \* a live overlay handed to serializeOverlay
    serialized,     \* the SerializedOverlay made of it, NoRecord before
    overlayCreate   \* the OverlayCreate made of the record, NoCreate before

storeVars == <<localStorage, foreignUsed, storeAccess, last, saved>>
facadeVars == <<facadeSymbol, hasProvider, cloud, pendingSync, roundTrip>>
coordVars == <<enabled, mounted, widget, engine, overlayMap, storageSymbol,
               autoSaveIntervalId, liveIntervals, symbolTicker, loading, prev,
               effectSubscribed, pending, nextId, mounts, gone, tickSaved,
               drawnHere, drawingBarVisible, barLock, barVisible, barMode,
               barMagnet, sideSteps, others>>
serVars == <<liveOverlay, serialized, overlayCreate>>
vars == <<storeVars, facadeVars, coordVars, serVars>>

----------------------------------------------------------------------------
(* Bounds *)

\* Capacity of the origin's localStorage, in characters of keys and texts
\* (see Size).
Quota == 600

\* Provider calls that may be awaited at the same time.
MaxPendingSync == 1

\* Overlays the user draws in one behaviour.
MaxDraws == 1

\* History requests in flight at the same time.
MaxPending == 1

\* Mounts of the component (page loads) in one behaviour.
MaxMounts == 2

\* Steps beside the main flow in one behaviour: a click on a switch of the
\* drawing bar or on the menu button ("bar"), a move of an overlay on the
\* chart or a removal through the chart API ("chart"), an overlay created
\* through the chart API ("create"), a further chart built on the page
\* ("page"), a host's clear of a key ("clear"), a host's save under a key
\* ("save"), another script filling the quota ("origin").
MaxSideSteps == 1

----------------------------------------------------------------------------
(* Values *)

Symbols == {"AAPL", "GOOGL"}

STORAGE_PREFIX == "klinecharts-pro-overlays"

\* An optional property that holds the JavaScript value undefined.
Undefined == "undefined"
\* An extendData payload that refers to itself: JSON.stringify throws on it.
Circular == "<circular>"

OptionalFields == {"extendData", "styles"}

\* JavaScript values that flow through the store API: an array of records, or null.
Arr(recs) == [tag |-> "array", recs |-> recs]
JsNull == [tag |-> "null", recs |-> <<>>]
EmptyArr == Arr(<<>>)
\* The result of a function that returns nothing.
Void == [tag |-> "void", recs |-> <<>>]

\* Texts held by localStorage. json says what the text is: "array" (the JSON
\* text of an array, items being its elements), "null" (the text null),
\* "invalid" (not JSON), "empty" (the empty string), "none" (no item: getItem
\* returns null). length is the number of characters of the text; the invalid
\* text is taken to be {broken.
NoItem == [json |-> "none", items |-> <<>>, length |-> 0]
InvalidText == [json |-> "invalid", items |-> <<>>, length |-> 7]
NullText == [json |-> "null", items |-> <<>>, length |-> 4]
EmptyText == [json |-> "empty", items |-> <<>>, length |-> 0]

\* The record of the spec's scenario.
RecO1 ==
    [id |-> "o1", groupId |-> "drawing_tools", name |-> "horizontalStraightLine",
     points |-> <<[value |-> 100]>>, lock |-> FALSE, visible |-> TRUE,
     mode |-> "normal"]
RecO2 ==
    [id |-> "o2", groupId |-> "drawing_tools", name |-> "fibonacciCircle",
     points |-> <<[timestamp |-> 7, value |-> 100], [dataIndex |-> 3]>>,
     lock |-> TRUE, visible |-> TRUE, mode |-> "weak_magnet",
     extendData |-> "note", styles |-> "red"]
\* A record as serializeOverlay builds it for an overlay without styles.
RecUndef ==
    [id |-> "o3", groupId |-> "shapes", name |-> "rect", points |-> <<>>,
     lock |-> FALSE, visible |-> FALSE, mode |-> "normal",
     extendData |-> "note", styles |-> Undefined]
RecCircular ==
    [id |-> "o4", groupId |-> "shapes", name |-> "rect", points |-> <<>>,
     lock |-> FALSE, visible |-> TRUE, mode |-> "normal",
     extendData |-> Circular, styles |-> "red"]

----------------------------------------------------------------------------
(* JSON *)

IsUndefinedField(r, f) == f \in OptionalFields /\ r[f] = Undefined

\* JSON.stringify leaves out the properties of an object that are undefined.
StripUndefined(r) ==
    [f \in {g \in DOMAIN r : ~IsUndefinedField(r, g)} |-> r[f]]

HasCircular(r) == "extendData" \in DOMAIN r /\ r.extendData = Circular

StringifyThrows(v) ==
    v.tag = "array" /\ \E i \in 1..Len(v.recs) : HasCircular(v.recs[i])

\* The number of characters JSON.stringify writes (it writes no white space).
RECURSIVE DigitChars(_)
DigitChars(n) == IF n < 10 THEN 1 ELSE 1 + DigitChars(n \div 10)

Commas(n) == IF n > 1 THEN n - 1 ELSE 0

\* A property "f":v of an object: its name in quotes, the colon and the value
\* (a string in quotes, true or false, or a number).
StringProp(r, f) == Len(f) + 3 + Len(r[f]) + 2
BooleanProp(r, f) == Len(f) + 3 + (IF r[f] THEN 4 ELSE 5)
NumberProp(r, f) == Len(f) + 3 + DigitChars(r[f])

RECURSIVE NumberProps(_, _)
NumberProps(r, fields) ==
    IF fields = {} THEN 0
    ELSE LET f == CHOOSE g \in fields : TRUE
         IN NumberProp(r, f) + NumberProps(r, fields \ {f})

\* {"timestamp":7,"value":100}: every property the point has, each a number.
PointChars(point) ==
    2 + Commas(Cardinality(DOMAIN point)) + NumberProps(point, DOMAIN point)

RECURSIVE PointsSum(_, _)
PointsSum(points, i) ==
    IF i > Len(points) THEN 0 ELSE PointChars(points[i]) + PointsSum(points, i + 1)

\* {"id":"o1",...,"points":[...],"lock":false,...}: the seven properties
\* every record has and the optional ones that are left.
RecordChars(r) ==
    2 + Commas(Cardinality(DOMAIN r))
      + StringProp(r, "id") + StringProp(r, "groupId") + StringProp(r, "name")
      + (Len("points") + 3 + 2 + Commas(Len(r.points)) + PointsSum(r.points, 1))
      + BooleanProp(r, "lock") + BooleanProp(r, "visible") + StringProp(r, "mode")
      + (IF "extendData" \in DOMAIN r THEN StringProp(r, "extendData") ELSE 0)
      + (IF "styles" \in DOMAIN r THEN StringProp(r, "styles") ELSE 0)

RECURSIVE ItemsSum(_, _)
ItemsSum(items, i) ==
    IF i > Len(items) THEN 0 ELSE RecordChars(items[i]) + ItemsSum(items, i + 1)

\* [r1,r2,...]
TextChars(items) == 2 + Commas(Len(items)) + ItemsSum(items, 1)

\* The text of an array is written once, from its elements as they are left.
JSONstringify(v) ==
    IF v.tag = "array"
    THEN CHOOSE text \in
             {[json |-> "array", items |-> items, length |-> TextChars(items)] :
                items \in {[i \in 1..Len(v.recs) |-> StripUndefined(v.recs[i])]}} :
             TRUE
    ELSE NullText

ParseThrows(text) == text.json \in {"invalid", "empty"}

\* Mutant: the parser loses the last element of an array.
JSONparse_DropsLast(text) ==
    IF text.json = "array"
    THEN Arr(SubSeq(text.items, 1, Len(text.items) - 1))
    ELSE JsNull

JSONparse(text) ==
    IF text.json = "array" THEN Arr(text.items) ELSE JsNull

\* A value JSON represents exactly: no undefined property, nothing circular.
JsonRepresentable(v) ==
    /\ v.tag = "array"
    /\ \A i \in 1..Len(v.recs) :
         /\ ~HasCircular(v.recs[i])
         /\ \A f \in DOMAIN v.recs[i] : ~IsUndefinedField(v.recs[i], f)

----------------------------------------------------------------------------
(* window.localStorage *)

\* What an item takes of the quota: the characters of its key and of its text.
Size(key, text) == IF text.json = "none" THEN 0 ELSE Len(key) + text.length

RECURSIVE SumSizes(_, _)
SumSizes(st, keys) ==
    IF keys = {} THEN 0
    ELSE LET k == CHOOSE x \in keys : TRUE
         IN Size(k, st[k]) + SumSizes(st, keys \ {k})

Used(st) == SumSizes(st, DOMAIN st)

\* getItem, setItem and removeItem throw when storage is denied; setItem throws
\* also when the text does not fit the quota.
GetItemThrows(access) == ~access
RemoveItemThrows(access) == ~access
SetItemThrows(st, foreign, access, key, text) ==
    \/ ~access
    \/ foreign + Used(st) - Size(key, st[key]) + Size(key, text) > Quota

----------------------------------------------------------------------------
(* The local store adapter *)

\* Mutant: the key leaves the symbol out.
getStorageKey_NoSymbol(symbol) == STORAGE_PREFIX \o "-"

getStorageKey(symbol) == STORAGE_PREFIX \o "-" \o symbol

StorageKeys == {getStorageKey(s) : s \in Symbols}

\* Mutant: save without its try/catch.
saveOverlaysToLocalStorage_NoCatch(st, foreign, access, symbol, overlays) ==
    LET key == getStorageKey(symbol)
        raised == \/ StringifyThrows(overlays)
                  \/ SetItemThrows(st, foreign, access, key, JSONstringify(overlays))
    IN [store |-> IF raised THEN st
                  ELSE [st EXCEPT ![key] = JSONstringify(overlays)],
        ret |-> Void,
        raised |-> raised,
        threw |-> raised]

\* Mutant: load without its try/catch.
loadOverlaysFromLocalStorage_NoCatch(st, access, symbol) ==
    LET key == getStorageKey(symbol)
        data == st[key]
        truthy == data.json \notin {"none", "empty"}
        raised == GetItemThrows(access) \/ (truthy /\ ParseThrows(data))
    IN [store |-> st,
        ret |-> IF ~raised /\ truthy THEN JSONparse(data) ELSE EmptyArr,
        raised |-> raised,
        threw |-> raised]

\* Mutant: clear empties the whole store (localStorage.clear()).
clearOverlaysFromLocalStorage_All(st, access, symbol) ==
    LET raised == RemoveItemThrows(access)
    IN [store |-> IF raised THEN st ELSE [k \in DOMAIN st |-> NoItem],
        ret |-> Void,
        raised |-> raised,
        threw |-> FALSE]

\* Mutant: save writes every symbol under one key.
saveOverlaysToLocalStorage_OneKey(st, foreign, access, symbol, overlays) ==
    LET raised == \/ StringifyThrows(overlays)
                  \/ \E k \in DOMAIN st :
                        SetItemThrows(st, foreign, access, k, JSONstringify(overlays))
    IN [store |-> IF raised THEN st
                  ELSE [k \in DOMAIN st |-> JSONstringify(overlays)],
        ret |-> Void,
        raised |-> raised,
        threw |-> FALSE]

\* Each function gives the store after the call, the value returned, whether an
\* exception was raised inside it (and logged) and whether one left the function.
saveOverlaysToLocalStorage(st, foreign, access, symbol, overlays) ==
    LET key == getStorageKey(symbol)
        text == JSONstringify(overlays)
        raised == \/ StringifyThrows(overlays)
                  \/ SetItemThrows(st, foreign, access, key, text)
    IN [store |-> IF raised THEN st ELSE [st EXCEPT ![key] = text],
        ret |-> Void,
        raised |-> raised,
        threw |-> FALSE]

loadOverlaysFromLocalStorage(st, access, symbol) ==
    LET key == getStorageKey(symbol)
        data == st[key]
        truthy == data.json \notin {"none", "empty"}
        raised == GetItemThrows(access) \/ (truthy /\ ParseThrows(data))
    IN [store |-> st,
        ret |-> IF ~raised /\ truthy THEN JSONparse(data) ELSE EmptyArr,
        raised |-> raised,
        threw |-> FALSE]

clearOverlaysFromLocalStorage(st, access, symbol) ==
    LET key == getStorageKey(symbol)
        raised == RemoveItemThrows(access)
    IN [store |-> IF raised THEN st ELSE [st EXCEPT ![key] = NoItem],
        ret |-> Void,
        raised |-> raised,
        threw |-> FALSE]

----------------------------------------------------------------------------
(* Callers of the adapter: the calls an embedding application can make *)

\* The arrays handed to save.
InputValues ==
    {EmptyArr, Arr(<<RecO1>>), Arr(<<RecO2>>), Arr(<<RecO1, RecO2>>),
     Arr(<<RecUndef>>), Arr(<<RecCircular>>)}

\* Texts another writer (an older version, the user, another script) left.
ForeignTexts == {NoItem, InvalidText, NullText, EmptyText}

NoCall == [op |-> "none", symbol |-> "", arg |-> Void, ret |-> Void,
           raised |-> FALSE, threw |-> FALSE]

Call(op, symbol, arg, res) ==
    [op |-> op, symbol |-> symbol, arg |-> arg, ret |-> res.ret,
     raised |-> res.raised, threw |-> res.threw]

NoRoundTrip == [phase |-> "idle", orig |-> Void]

\* No facade in use.
FacadeIdle ==
    /\ facadeSymbol = "AAPL"
    /\ hasProvider = FALSE
    /\ cloud = [s \in Symbols |-> Void]
    /\ pendingSync = <<>>
    /\ roundTrip = NoRoundTrip

NoPrev == "<undefined>"

NoRecord == [id |-> "<no record>"]
NoCreate == [id |-> "<no request>"]

\* No overlay given to the serializer.
SerializerIdle ==
    /\ liveOverlay = NoRecord
    /\ serialized = NoRecord
    /\ overlayCreate = NoCreate

CoordIdle ==
    /\ enabled = FALSE
    /\ mounted = FALSE
    /\ widget = "null"
    /\ engine = {}
    /\ overlayMap = <<>>
    /\ storageSymbol = "AAPL"
    /\ autoSaveIntervalId = FALSE
    /\ liveIntervals = 0
    /\ symbolTicker = "AAPL"
    /\ loading = FALSE
    /\ prev = NoPrev
    /\ effectSubscribed = FALSE
    /\ pending = <<>>
    /\ nextId = 0
    /\ mounts = 0
    /\ gone = {}
    /\ tickSaved = {}
    /\ drawnHere = {}
    /\ drawingBarVisible = TRUE
    /\ barLock = FALSE
    /\ barVisible = TRUE
    /\ barMode = "normal"
    /\ barMagnet = "weak_magnet"
    /\ sideSteps = <<>>
    /\ others = <<>>

InitStore ==
    /\ CoordIdle
    /\ localStorage \in [StorageKeys -> ForeignTexts]
    /\ foreignUsed = 0
    /\ storeAccess \in BOOLEAN
    /\ last = NoCall
    /\ saved = [s \in Symbols |-> Void]
    /\ FacadeIdle
    /\ SerializerIdle

Save(symbol, overlays) ==
    LET res == saveOverlaysToLocalStorage(localStorage, foreignUsed, storeAccess,
                                          symbol, overlays)
    IN /\ localStorage' = res.store
       /\ last' = Call("save", symbol, overlays, res)
       /\ saved' = IF res.raised THEN saved
                   ELSE [saved EXCEPT ![symbol] = overlays]
       /\ UNCHANGED <<foreignUsed, storeAccess, facadeVars, coordVars, serVars>>

Load(symbol) ==
    LET res == loadOverlaysFromLocalStorage(localStorage, storeAccess, symbol)
    IN /\ localStorage' = res.store
       /\ last' = Call("load", symbol, Void, res)
       /\ UNCHANGED <<foreignUsed, storeAccess, saved, facadeVars, coordVars, serVars>>

Clear(symbol) ==
    LET res == clearOverlaysFromLocalStorage(localStorage, storeAccess, symbol)
    IN /\ localStorage' = res.store
       /\ last' = Call("clear", symbol, Void, res)
       /\ saved' = IF res.raised THEN saved
                   ELSE [saved EXCEPT ![symbol] = Void]
       /\ UNCHANGED <<foreignUsed, storeAccess, facadeVars, coordVars, serVars>>

\* Data of other keys of the origin grows to fill the quota, or is removed.
ForeignFillStore ==
    /\ storeAccess
    /\ foreignUsed # Quota - Used(localStorage)
    /\ Used(localStorage) <= Quota
    /\ foreignUsed' = Quota - Used(localStorage)
    /\ UNCHANGED <<localStorage, storeAccess, saved>>

ForeignFreeStore ==
    /\ storeAccess
    /\ foreignUsed # 0
    /\ foreignUsed' = 0
    /\ UNCHANGED <<localStorage, storeAccess, saved>>

ForeignFill ==
    ForeignFillStore /\ last' = NoCall /\ UNCHANGED <<facadeVars, coordVars, serVars>>

ForeignFree ==
    ForeignFreeStore /\ last' = NoCall /\ UNCHANGED <<facadeVars, coordVars, serVars>>

NextStore ==
    \/ \E s \in Symbols, x \in InputValues : Save(s, x)
    \/ \E s \in Symbols : Load(s)
    \/ \E s \in Symbols : Clear(s)
    \/ ForeignFill
    \/ ForeignFree

SpecStore == InitStore /\ [][NextStore]_vars

----------------------------------------------------------------------------
(* The OverlayStorage facade, used by an application with a cloud provider *)

\* Mutant: the facade's save uploads what it saved.
OverlayStorage_save_ThenUpload(st, foreign, access, symbol, overlays) ==
    LET res == saveOverlaysToLocalStorage(st, foreign, access, symbol, overlays)
    IN [store |-> res.store, ret |-> res.ret, raised |-> res.raised,
        threw |-> res.threw,
        calls |-> <<[method |-> "upload", symbol |-> symbol, payload |-> overlays]>>]

\* save, load and clear of the facade: the adapter's function for this.symbol.
\* calls is the list of the provider calls the method makes: none.
OverlayStorage_save(st, foreign, access, symbol, overlays) ==
    LET res == saveOverlaysToLocalStorage(st, foreign, access, symbol, overlays)
    IN [store |-> res.store, ret |-> res.ret, raised |-> res.raised,
        threw |-> res.threw, calls |-> <<>>]

OverlayStorage_load(st, access, symbol) ==
    LET res == loadOverlaysFromLocalStorage(st, access, symbol)
    IN [store |-> res.store, ret |-> res.ret, raised |-> res.raised,
        threw |-> res.threw, calls |-> <<>>]

OverlayStorage_clear(st, access, symbol) ==
    LET res == clearOverlaysFromLocalStorage(st, access, symbol)
    IN [store |-> res.store, ret |-> res.ret, raised |-> res.raised,
        threw |-> res.threw, calls |-> <<>>]

\* syncToCloud up to its await: the records loaded go to upload with this.symbol.
syncToCloudRequest(st, access, symbol) ==
    [method |-> "upload", symbol |-> symbol,
     payload |-> OverlayStorage_load(st, access, symbol).ret]

\* syncFromCloud up to its await: download is called with this.symbol.
syncFromCloudRequest(symbol) ==
    [method |-> "download", symbol |-> symbol, payload |-> Void]

\* Mutant: syncToCloud calls upload twice.
syncToCloud_Twice(st, access, symbol, provider) ==
    IF provider
    THEN [reads |-> <<getStorageKey(symbol)>>,
          calls |-> <<syncToCloudRequest(st, access, symbol),
                      syncToCloudRequest(st, access, symbol)>>,
          store |-> OverlayStorage_load(st, access, symbol).store]
    ELSE [reads |-> <<>>, calls |-> <<>>, store |-> st]

\* syncToCloud up to its await, or to its end without a provider: the keys it
\* read, the provider calls it made, the store it left.
syncToCloud(st, access, symbol, provider) ==
    IF provider
    THEN [reads |-> <<getStorageKey(symbol)>>,
          calls |-> <<syncToCloudRequest(st, access, symbol)>>,
          store |-> OverlayStorage_load(st, access, symbol).store]
    ELSE [reads |-> <<>>, calls |-> <<>>, store |-> st]

\* Mutant: syncFromCloud calls download twice.
syncFromCloud_Twice(st, symbol, provider) ==
    IF provider
    THEN [reads |-> <<>>,
          calls |-> <<syncFromCloudRequest(symbol), syncFromCloudRequest(symbol)>>,
          store |-> st, ret |-> Void]
    ELSE [reads |-> <<>>, calls |-> <<>>, store |-> st, ret |-> EmptyArr]

\* syncFromCloud up to its await, or to its end without a provider.
syncFromCloud(st, symbol, provider) ==
    IF provider
    THEN [reads |-> <<>>, calls |-> <<syncFromCloudRequest(symbol)>>,
          store |-> st, ret |-> Void]
    ELSE [reads |-> <<>>, calls |-> <<>>, store |-> st, ret |-> EmptyArr]

\* The errors a provider rejects with.
ProviderErrors == {"NetworkError", "AuthError"}

\* Mutant: a rejected call is made again.
awaitRejected_Retry(st, call, error) ==
    [store |-> st, calls |-> <<call>>, threw |-> TRUE, error |-> error]

\* The awaited provider promise rejects with error: the await throws, nothing
\* after it runs, and the async method rejects with that error.
awaitRejected(st, call, error) ==
    [store |-> st, calls |-> <<>>, threw |-> TRUE, error |-> error]

\* Mutant: syncFromCloud returns the download without saving it.
syncFromCloudResume_NoSave(st, foreign, access, symbol, overlays) ==
    [store |-> st, ret |-> overlays, raised |-> FALSE, threw |-> FALSE,
     calls |-> <<>>]

\* syncFromCloud after its await: save under this.symbol, return the download.
syncFromCloudResume(st, foreign, access, symbol, overlays) ==
    [OverlayStorage_save(st, foreign, access, symbol, overlays)
        EXCEPT !.ret = overlays]

\* A provider that keeps per symbol what upload gave it and returns it on
\* download (the empty array for a symbol never uploaded).
ProviderUpload(cl, symbol, overlays) == [cl EXCEPT ![symbol] = overlays]
ProviderDownload(cl, symbol) == IF cl[symbol] = Void THEN EmptyArr ELSE cl[symbol]

FacadeInputValues == {Arr(<<RecUndef, RecO2>>)}

InitFacade ==
    /\ CoordIdle
    /\ SerializerIdle
    /\ \E t \in {NoItem, InvalidText, NullText, JSONstringify(Arr(<<RecO1>>))} :
         localStorage = [k \in StorageKeys |->
                           IF k = getStorageKey("AAPL") THEN t ELSE NoItem]
    /\ foreignUsed = 0
    /\ storeAccess \in BOOLEAN
    /\ last = NoCall
    /\ saved = [s \in Symbols |-> Void]
    /\ facadeSymbol = "AAPL"
    /\ hasProvider \in BOOLEAN
    /\ cloud = [s \in Symbols |-> Void]
    /\ pendingSync = <<>>
    /\ roundTrip = NoRoundTrip

Drop(seq, i) == SubSeq(seq, 1, i - 1) \o SubSeq(seq, i + 1, Len(seq))

\* The sequence syncToCloud(); clear(); syncFromCloud() goes on only through
\* its own steps (and loads, which write nothing).
Advance(from, to) ==
    roundTrip' = IF roundTrip.phase = from
                 THEN [roundTrip EXCEPT !.phase = to]
                 ELSE NoRoundTrip

\* Mutant: setSymbol clears the key of the symbol it leaves.
FacadeSetSymbol_ClearsOld(symbol) ==
    /\ facadeSymbol' = symbol
    /\ localStorage' = OverlayStorage_clear(localStorage, storeAccess, facadeSymbol).store
    /\ last' = [NoCall EXCEPT !.op = "setSymbol", !.symbol = symbol]
    /\ roundTrip' = NoRoundTrip
    /\ UNCHANGED <<coordVars, serVars, foreignUsed, storeAccess, saved,
                   hasProvider, cloud, pendingSync>>

FacadeSetSymbol(symbol) ==
    /\ facadeSymbol' = symbol
    /\ last' = [NoCall EXCEPT !.op = "setSymbol", !.symbol = symbol]
    /\ roundTrip' = NoRoundTrip
    /\ UNCHANGED <<coordVars, serVars, localStorage, foreignUsed, storeAccess, saved,
                   hasProvider, cloud, pendingSync>>

FacadeSave(overlays) ==
    LET res == OverlayStorage_save(localStorage, foreignUsed, storeAccess,
                                   facadeSymbol, overlays)
    IN /\ localStorage' = res.store
       /\ last' = Call("save", facadeSymbol, overlays, res)
       /\ roundTrip' = NoRoundTrip
       /\ UNCHANGED <<coordVars, serVars, foreignUsed, storeAccess, saved, facadeSymbol, hasProvider,
                      cloud, pendingSync>>

FacadeLoad ==
    LET res == OverlayStorage_load(localStorage, storeAccess, facadeSymbol)
    IN /\ localStorage' = res.store
       /\ last' = Call("load", facadeSymbol, Void, res)
       /\ roundTrip' = IF roundTrip.phase = "done" THEN NoRoundTrip ELSE roundTrip
       /\ UNCHANGED <<coordVars, serVars, foreignUsed, storeAccess, saved, facadeSymbol, hasProvider,
                      cloud, pendingSync>>

FacadeClear ==
    LET res == OverlayStorage_clear(localStorage, storeAccess, facadeSymbol)
    IN /\ localStorage' = res.store
       /\ last' = Call("clear", facadeSymbol, Void, res)
       /\ Advance("uploaded", "cleared")
       /\ UNCHANGED <<coordVars, serVars, foreignUsed, storeAccess, saved, facadeSymbol, hasProvider,
                      cloud, pendingSync>>

\* syncToCloud / syncFromCloud of a facade without a provider.
SyncToCloudNoProvider ==
    /\ ~hasProvider
    /\ LET r == syncToCloud(localStorage, storeAccess, facadeSymbol, hasProvider)
       IN /\ localStorage' = r.store
          /\ pendingSync' = pendingSync \o r.calls
    /\ last' = [NoCall EXCEPT !.op = "syncToCloud", !.symbol = facadeSymbol]
    /\ roundTrip' = NoRoundTrip
    /\ UNCHANGED <<coordVars, serVars, foreignUsed, storeAccess, saved, facadeSymbol,
                   hasProvider, cloud>>

SyncFromCloudNoProvider ==
    /\ ~hasProvider
    /\ LET r == syncFromCloud(localStorage, facadeSymbol, hasProvider)
       IN /\ localStorage' = r.store
          /\ pendingSync' = pendingSync \o r.calls
          /\ last' = [NoCall EXCEPT !.op = "syncFromCloud", !.symbol = facadeSymbol,
                                    !.ret = r.ret]
    /\ roundTrip' = NoRoundTrip
    /\ UNCHANGED <<coordVars, serVars, foreignUsed, storeAccess, saved, facadeSymbol,
                   hasProvider, cloud>>

\* syncToCloud runs to its await.
SyncToCloudCall ==
    /\ hasProvider
    /\ Len(pendingSync) < MaxPendingSync
    /\ LET r == syncToCloud(localStorage, storeAccess, facadeSymbol, hasProvider)
       IN /\ localStorage' = r.store
          /\ pendingSync' = pendingSync \o r.calls
    /\ last' = [NoCall EXCEPT !.op = "upload", !.symbol = facadeSymbol]
    /\ roundTrip' =
          IF pendingSync = <<>>
          THEN [phase |-> "uploading",
                orig |-> OverlayStorage_load(localStorage, storeAccess,
                                             facadeSymbol).ret]
          ELSE NoRoundTrip
    /\ UNCHANGED <<coordVars, serVars, foreignUsed, storeAccess, saved, facadeSymbol,
                   hasProvider, cloud>>

\* The upload resolves: syncToCloud resolves.
UploadResolve(i) ==
    /\ pendingSync[i].method = "upload"
    /\ cloud' = ProviderUpload(cloud, pendingSync[i].symbol, pendingSync[i].payload)
    /\ pendingSync' = Drop(pendingSync, i)
    /\ last' = [NoCall EXCEPT !.op = "syncToCloud", !.symbol = pendingSync[i].symbol,
                              !.arg = pendingSync[i].payload]
    /\ Advance("uploading", "uploaded")
    /\ UNCHANGED <<coordVars, serVars, localStorage, foreignUsed, storeAccess, saved, facadeSymbol,
                   hasProvider>>

\* The provider's promise rejects: the rejection leaves syncToCloud /
\* syncFromCloud, nothing after the await runs.
ProviderReject(i, error) ==
    /\ LET r == awaitRejected(localStorage, pendingSync[i], error)
       IN /\ localStorage' = r.store
          /\ pendingSync' = Drop(pendingSync, i) \o r.calls
          /\ last' = [NoCall EXCEPT
                        !.op = IF pendingSync[i].method = "upload"
                               THEN "syncToCloud" ELSE "syncFromCloud",
                        !.symbol = pendingSync[i].symbol,
                        !.ret = [tag |-> r.error, recs |-> <<>>],
                        !.threw = r.threw]
    /\ roundTrip' = NoRoundTrip
    /\ UNCHANGED <<coordVars, serVars, foreignUsed, storeAccess, saved, facadeSymbol,
                   hasProvider, cloud>>

\* syncFromCloud runs to its await.
SyncFromCloudCall ==
    /\ hasProvider
    /\ Len(pendingSync) < MaxPendingSync
    /\ LET r == syncFromCloud(localStorage, facadeSymbol, hasProvider)
       IN /\ localStorage' = r.store
          /\ pendingSync' = pendingSync \o r.calls
    /\ last' = [NoCall EXCEPT !.op = "download", !.symbol = facadeSymbol]
    /\ IF pendingSync = <<>> THEN Advance("cleared", "downloading")
                             ELSE roundTrip' = NoRoundTrip
    /\ UNCHANGED <<coordVars, serVars, foreignUsed, storeAccess, saved, facadeSymbol,
                   hasProvider, cloud>>

\* The download resolves: syncFromCloud saves what it got and returns it.
DownloadResolve(i) ==
    /\ pendingSync[i].method = "download"
    /\ LET overlays == ProviderDownload(cloud, pendingSync[i].symbol)
           res == syncFromCloudResume(localStorage, foreignUsed, storeAccess,
                                      facadeSymbol, overlays)
       IN /\ localStorage' = res.store
          /\ last' = Call("syncFromCloud", pendingSync[i].symbol, Void, res)
    /\ pendingSync' = Drop(pendingSync, i)
    /\ Advance("downloading", "done")
    /\ UNCHANGED <<coordVars, serVars, foreignUsed, storeAccess, saved, facadeSymbol, hasProvider,
                   cloud>>

\* Another writer of the origin, during a facade's life.
FacadeForeignFill ==
    /\ ForeignFillStore
    /\ last' = NoCall
    /\ roundTrip' = NoRoundTrip
    /\ UNCHANGED <<coordVars, serVars, facadeSymbol, hasProvider, cloud, pendingSync>>

FacadeForeignFree ==
    /\ ForeignFreeStore
    /\ last' = NoCall
    /\ roundTrip' = NoRoundTrip
    /\ UNCHANGED <<coordVars, serVars, facadeSymbol, hasProvider, cloud, pendingSync>>

NextFacade ==
    \/ \E s \in Symbols : FacadeSetSymbol(s)
    \/ \E x \in FacadeInputValues : FacadeSave(x)
    \/ FacadeLoad
    \/ FacadeClear
    \/ SyncToCloudNoProvider
    \/ SyncFromCloudNoProvider
    \/ SyncToCloudCall
    \/ SyncFromCloudCall
    \/ \E i \in 1..Len(pendingSync) : UploadResolve(i)
    \/ \E i \in 1..Len(pendingSync) : DownloadResolve(i)
    \/ \E i \in 1..Len(pendingSync), e \in ProviderErrors : ProviderReject(i, e)
    \/ FacadeForeignFill
    \/ FacadeForeignFree

SpecFacade == InitFacade /\ [][NextFacade]_vars

----------------------------------------------------------------------------
(* Overlay serializer / deserializer *)

\* Reading a property an object does not have gives undefined.
Prop(r, f) == IF f \in DOMAIN r THEN r[f] ELSE Undefined

serializeOverlay(overlay) ==
    [id |-> overlay.id,
     groupId |-> overlay.groupId,
     name |-> overlay.name,
     points |-> [i \in 1..Len(overlay.points) |->
                   [f \in DOMAIN overlay.points[i] |-> overlay.points[i][f]]],
     lock |-> overlay.lock,
     visible |-> overlay.visible,
     mode |-> overlay.mode,
     extendData |-> overlay.extendData,
     styles |-> overlay.styles]

\* Mutant: deserializeOverlay resets the mode.
deserializeOverlay_NormalMode(data) ==
    [id |-> data.id,
     groupId |-> data.groupId,
     name |-> data.name,
     points |-> data.points,
     lock |-> data.lock,
     visible |-> data.visible,
     mode |-> "normal",
     extendData |-> Prop(data, "extendData"),
     styles |-> Prop(data, "styles")]

deserializeOverlay(data) ==
    [id |-> data.id,
     groupId |-> data.groupId,
     name |-> data.name,
     points |-> data.points,
     lock |-> data.lock,
     visible |-> data.visible,
     mode |-> data.mode,
     extendData |-> Prop(data, "extendData"),
     styles |-> Prop(data, "styles")]

\* The point lists of the overlays given to the serializer: empty, points
\* with some of timestamp / dataIndex / value, and a point with a further
\* property (createOverlay keeps the point objects it is given).
PointLists ==
    {<<>>,
     <<[timestamp |-> 7]>>,
     <<[timestamp |-> 7, value |-> 100], [dataIndex |-> 3, value |-> 100]>>,
     <<[timestamp |-> 7, dataIndex |-> 3, value |-> 100]>>,
     <<[timestamp |-> 7, value |-> 100, x |-> 12]>>}

LiveOverlays ==
    [id : {"o1"}, groupId : {"drawing_tools"}, name : {"rect"},
     points : PointLists, lock : BOOLEAN, visible : BOOLEAN,
     mode : {"normal", "weak_magnet"},
     extendData : {Undefined, "note"}, styles : {Undefined, "red"}]

InitSerializer ==
    /\ CoordIdle
    /\ FacadeIdle
    /\ localStorage = [k \in StorageKeys |-> NoItem]
    /\ foreignUsed = 0
    /\ storeAccess = TRUE
    /\ last = NoCall
    /\ saved = [s \in Symbols |-> Void]
    /\ liveOverlay \in LiveOverlays
    /\ serialized = NoRecord
    /\ overlayCreate = NoCreate

SerializerFrame == UNCHANGED <<storeVars, facadeVars, coordVars>>

\* serializeOverlay(overlay)
Serialize ==
    /\ serialized = NoRecord
    /\ serialized' = serializeOverlay(liveOverlay)
    /\ UNCHANGED <<liveOverlay, overlayCreate>>
    /\ SerializerFrame

\* The record goes through storage: JSON.stringify, then JSON.parse.
ThroughJSON ==
    /\ serialized # NoRecord
    /\ overlayCreate = NoCreate
    /\ serialized' = JSONparse(JSONstringify(Arr(<<serialized>>))).recs[1]
    /\ UNCHANGED <<liveOverlay, overlayCreate>>
    /\ SerializerFrame

\* deserializeOverlay(data)
Deserialize ==
    /\ serialized # NoRecord
    /\ overlayCreate = NoCreate
    /\ overlayCreate' = deserializeOverlay(serialized)
    /\ UNCHANGED <<liveOverlay, serialized>>
    /\ SerializerFrame

NextSerializer == Serialize \/ ThroughJSON \/ Deserialize

SpecSerializer == InitSerializer /\ [][NextSerializer]_vars

----------------------------------------------------------------------------
(* The chart, as far as the component calls it *)

GroupIds == {"drawing_tools", "shapes"}

\* The group the drawing bar puts its overlays in.
DrawingGroupIds == {"drawing_tools"}

\* A click on an item of a tool's list: the bar's request names no group.
NoGroupId == "<no groupId>"

\* What the drawing bar asks for: a click on a tool's icon gives the bar's
\* group, a click on an item of a tool's list gives none.
DrawingClicks == DrawingGroupIds \cup {NoGroupId}

\* Overlay names registered with the chart.
RegisteredNames == {"horizontalStraightLine", "fibonacciCircle", "rect"}

\* createOverlay returning null.
NullId == "<null>"

\* The k-th id the chart generates for an overlay created without one.
GeneratedId(k) == "overlay_" \o ToString(k)

HasOverlay(e, id) == \E o \in e : o.id = id

\* getOverlayById, for an id the chart holds (otherwise it returns null).
getOverlayById(e, id) == CHOOSE o \in e : o.id = id

\* createOverlay(request): the chart refuses an unregistered name and an id it
\* already holds; otherwise it creates the overlay and returns its id. An
\* overlay asked for without a groupId is its own group; one asked for without
\* visible is visible.
createOverlay(e, request, generated) ==
    LET id == IF "id" \in DOMAIN request THEN request.id ELSE generated
    IN IF request.name \notin RegisteredNames \/ HasOverlay(e, id)
       THEN [id |-> NullId, engine |-> e]
       ELSE [id |-> id,
             engine |-> e \cup
                {[id |-> id,
                  groupId |-> IF "groupId" \in DOMAIN request
                              THEN request.groupId ELSE id,
                  name |-> request.name,
                  points |-> IF "points" \in DOMAIN request
                             THEN request.points ELSE <<>>,
                  lock |-> request.lock,
                  visible |-> IF "visible" \in DOMAIN request
                              THEN request.visible ELSE TRUE,
                  mode |-> request.mode,
                  extendData |-> Prop(request, "extendData"),
                  styles |-> Prop(request, "styles")]}]

\* removeOverlay() and removeOverlay({ groupId }).
removeAllOverlays(e) == {}
removeOverlayGroup(e, groupId) == {o \in e : o.groupId # groupId}

\* removeOverlay({ id }).
removeOverlayById(e, id) == {o \in e : o.id # id}

\* Mutant: overrideOverlay leaves the locked overlays out.
overrideOverlayLock_Unlocked(e, lock) ==
    {[o EXCEPT !.lock = lock] : o \in {x \in e : ~x.lock}}

\* overrideOverlay({ lock }) applies to every overlay.
overrideOverlayLock(e, lock) == {[o EXCEPT !.lock = lock] : o \in e}

\* overrideOverlay({ visible }) and overrideOverlay({ mode }) likewise.
overrideOverlayVisible(e, visible) == {[o EXCEPT !.visible = visible] : o \in e}
overrideOverlayMode(e, mode) == {[o EXCEPT !.mode = mode] : o \in e}

\* The points of an overlay after the user moved it on the chart (or placed
\* the points of a drawing).
MovedPoints == <<[timestamp |-> 8, value |-> 101]>>

\* The chart's overlays after overlay id got these points.
moveOverlay(e, id) ==
    {IF o.id = id THEN [o EXCEPT !.points = MovedPoints] ELSE o : o \in e}

----------------------------------------------------------------------------
(* ChartProComponent: overlay persistence *)

\* overlayMap: a Map keeps its keys in insertion order.
MapHas(m, id) == \E i \in 1..Len(m) : m[i].key = id
MapKeys(m) == {m[i].key : i \in 1..Len(m)}
MapSet(m, id, overlay) ==
    IF MapHas(m, id)
    THEN [i \in 1..Len(m) |->
            IF m[i].key = id THEN [key |-> id, val |-> overlay] ELSE m[i]]
    ELSE Append(m, [key |-> id, val |-> overlay])
MapDelete(m, id) == SelectSeq(m, LAMBDA x : x.key # id)

\* The helpers below act on a record k of what a handler may change while it
\* runs: map (overlayMap), engine, store (localStorage), symbol
\* (overlayStorage.symbol), widget, writes, the log of the saves it made,
\* reads, the log of the keys it loaded, and calls, the log of the provider
\* calls it made.

\* Mutant: the save moves the first tracked entry behind the others.
saveOverlays_Rotate(k) ==
    IF enabled /\ k.widget # "null"
    THEN LET refreshed ==
                 [i \in 1..Len(k.map) |->
                    IF HasOverlay(k.engine, k.map[i].key)
                    THEN [key |-> k.map[i].key,
                          val |-> getOverlayById(k.engine, k.map[i].key)]
                    ELSE k.map[i]]
             overlays ==
                 Arr([i \in 1..Len(refreshed) |-> serializeOverlay(refreshed[i].val)])
             res == OverlayStorage_save(k.store, foreignUsed, storeAccess,
                                        k.symbol, overlays)
         IN [k EXCEPT !.map = IF refreshed = <<>> THEN <<>>
                               ELSE Append(Tail(refreshed), Head(refreshed)),
                      !.store = res.store,
                      !.writes = Append(@, [symbol |-> k.symbol, value |-> overlays,
                                            accepted |-> ~res.raised]),
                      !.calls = @ \o res.calls]
    ELSE k

\* Mutant: the save writes only the entries that changed since they were
\* last refreshed.
saveOverlays_Delta(k) ==
    IF enabled /\ k.widget # "null"
    THEN LET refreshed ==
                 [i \in 1..Len(k.map) |->
                    IF HasOverlay(k.engine, k.map[i].key)
                    THEN [key |-> k.map[i].key,
                          val |-> getOverlayById(k.engine, k.map[i].key)]
                    ELSE k.map[i]]
             changed == SelectSeq(refreshed, LAMBDA x : \A i \in 1..Len(k.map) :
                                                          k.map[i] # x)
             overlays ==
                 Arr([i \in 1..Len(changed) |-> serializeOverlay(changed[i].val)])
             res == OverlayStorage_save(k.store, foreignUsed, storeAccess,
                                        k.symbol, overlays)
         IN [k EXCEPT !.map = refreshed,
                      !.store = res.store,
                      !.writes = Append(@, [symbol |-> k.symbol, value |-> overlays,
                                            accepted |-> ~res.raised]),
                      !.calls = @ \o res.calls]
    ELSE k

\* Mutant: the save serializes the entries as they were tracked.
saveOverlays_NoRefresh(k) ==
    IF enabled /\ k.widget # "null"
    THEN LET overlays ==
                 Arr([i \in 1..Len(k.map) |-> serializeOverlay(k.map[i].val)])
             res == OverlayStorage_save(k.store, foreignUsed, storeAccess,
                                        k.symbol, overlays)
         IN [k EXCEPT !.store = res.store,
                      !.writes = Append(@, [symbol |-> k.symbol, value |-> overlays,
                                            accepted |-> ~res.raised]),
                      !.calls = @ \o res.calls]
    ELSE k

\* Mutant: every save is followed by a syncToCloud.
saveOverlays_ThenSync(k) ==
    IF enabled /\ k.widget # "null"
    THEN LET refreshed ==
                 [i \in 1..Len(k.map) |->
                    IF HasOverlay(k.engine, k.map[i].key)
                    THEN [key |-> k.map[i].key,
                          val |-> getOverlayById(k.engine, k.map[i].key)]
                    ELSE k.map[i]]
             overlays ==
                 Arr([i \in 1..Len(refreshed) |-> serializeOverlay(refreshed[i].val)])
             res == OverlayStorage_save(k.store, foreignUsed, storeAccess,
                                        k.symbol, overlays)
         IN [k EXCEPT !.map = refreshed,
                      !.store = res.store,
                      !.writes = Append(@, [symbol |-> k.symbol, value |-> overlays,
                                            accepted |-> ~res.raised]),
                      !.calls = @ \o res.calls
                                  \o syncToCloud(res.store, storeAccess, k.symbol,
                                                 hasProvider).calls]
    ELSE k

saveOverlays(k) ==
    IF enabled /\ k.widget # "null"
    THEN LET refreshed ==
                 [i \in 1..Len(k.map) |->
                    IF HasOverlay(k.engine, k.map[i].key)
                    THEN [key |-> k.map[i].key,
                          val |-> getOverlayById(k.engine, k.map[i].key)]
                    ELSE k.map[i]]
             overlays ==
                 Arr([i \in 1..Len(refreshed) |-> serializeOverlay(refreshed[i].val)])
             res == OverlayStorage_save(k.store, foreignUsed, storeAccess,
                                        k.symbol, overlays)
         IN [k EXCEPT !.map = refreshed,
                      !.store = res.store,
                      !.writes = Append(@, [symbol |-> k.symbol, value |-> overlays,
                                            accepted |-> ~res.raised]),
                      !.calls = @ \o res.calls]
    ELSE k

\* Mutant: the forEach stops at the first record the chart refuses.
RECURSIVE loadEach_StopsAtRefused(_, _, _)
loadEach_StopsAtRefused(k, recs, i) ==
    IF i > Len(recs) THEN k
    ELSE LET created == createOverlay(k.engine, deserializeOverlay(recs[i]), NullId)
             tracked == created.id # NullId /\ HasOverlay(created.engine, created.id)
         IN IF ~tracked THEN k
            ELSE loadEach_StopsAtRefused(
                     [k EXCEPT !.engine = created.engine,
                               !.map = MapSet(@, created.id,
                                              getOverlayById(created.engine, created.id))],
                     recs, i + 1)

\* The body of loadOverlays' forEach, for the records from the i-th on.
RECURSIVE loadEach(_, _, _)
loadEach(k, recs, i) ==
    IF i > Len(recs) THEN k
    ELSE LET created == createOverlay(k.engine, deserializeOverlay(recs[i]), NullId)
             tracked == created.id # NullId /\ HasOverlay(created.engine, created.id)
         IN loadEach([k EXCEPT !.engine = created.engine,
                               !.map = IF tracked
                                       THEN MapSet(@, created.id,
                                                getOverlayById(created.engine, created.id))
                                       ELSE @],
                     recs, i + 1)

\* loadOverlays: overlayStorage.load(), then forEach over what it returned.
\* On a value that is no array (the stored text was valid JSON of another
\* kind) overlays.forEach throws a TypeError, which nothing here catches.
loadOverlays(k) ==
    IF enabled /\ k.widget # "null"
    THEN LET loaded == OverlayStorage_load(k.store, storeAccess, k.symbol)
             overlays == loaded.ret
             read == [k EXCEPT !.reads = Append(@, getStorageKey(k.symbol)),
                               !.calls = @ \o loaded.calls]
         IN IF overlays.tag # "array"
            THEN [read EXCEPT !.threw = TRUE]
            ELSE loadEach(read, overlays.recs, 1)
    ELSE k

\* Mutant: the overlay first tracked is kept under every new id.
trackOverlay_FirstOverlay(k, id) ==
    IF enabled /\ k.widget # "null" /\ HasOverlay(k.engine, id)
    THEN [k EXCEPT !.map = MapSet(@, id, IF @ = <<>>
                                         THEN getOverlayById(k.engine, id)
                                         ELSE @[1].val)]
    ELSE k

\* Mutant: overlays are tracked whether or not persistence is enabled.
trackOverlay_Always(k, id) ==
    IF k.widget # "null" /\ HasOverlay(k.engine, id)
    THEN [k EXCEPT !.map = MapSet(@, id, getOverlayById(k.engine, id))]
    ELSE k

\* Mutant: tracking an overlay saves at once.
trackOverlay_ThenSave(k, id) ==
    IF enabled /\ k.widget # "null" /\ HasOverlay(k.engine, id)
    THEN saveOverlays([k EXCEPT !.map = MapSet(@, id, getOverlayById(k.engine, id))])
    ELSE k

trackOverlay(k, id) ==
    IF enabled /\ k.widget # "null" /\ HasOverlay(k.engine, id)
    THEN [k EXCEPT !.map = MapSet(@, id, getOverlayById(k.engine, id))]
    ELSE k

\* Mutant: untrackOverlay leaves the save to the auto-save timer.
untrackOverlay_NoSave(k, id) ==
    IF enabled THEN [k EXCEPT !.map = MapDelete(@, id)] ELSE k

untrackOverlay(k, id) ==
    IF enabled THEN saveOverlays([k EXCEPT !.map = MapDelete(@, id)]) ELSE k

clearOverlays(k) ==
    IF enabled THEN saveOverlays([k EXCEPT !.map = <<>>]) ELSE k

\* Mutant: the lock handler saves at once.
onLockChange_ThenSave(k, lock) ==
    saveOverlays([k EXCEPT !.engine = IF k.widget = "null" THEN @
                                      ELSE overrideOverlayLock(@, lock)])

\* onLockChange, onVisibleChange, onModeChange: widget?.overrideOverlay(...)
\* and nothing else.
onLockChange(k, lock) ==
    [k EXCEPT !.engine = IF k.widget = "null" THEN @
                         ELSE overrideOverlayLock(@, lock)]

onVisibleChange(k, visible) ==
    [k EXCEPT !.engine = IF k.widget = "null" THEN @
                         ELSE overrideOverlayVisible(@, visible)]

onModeChange(k, mode) ==
    [k EXCEPT !.engine = IF k.widget = "null" THEN @
                         ELSE overrideOverlayMode(@, mode)]

\* overlaysToRemove.forEach(id => untrackOverlay(id))
RECURSIVE untrackEach(_, _, _)
untrackEach(k, ids, i) ==
    IF i > Len(ids) THEN k ELSE untrackEach(untrackOverlay(k, ids[i]), ids, i + 1)

\* Mutant: every run of the effect after the first clears chart and map.
symbolPeriodEffect_ClearsAlways(k, prevTicker, ticker) ==
    LET cleared == IF prevTicker # NoPrev /\ enabled
                   THEN clearOverlays(
                            [k EXCEPT !.engine = IF k.widget = "null" THEN @
                                                 ELSE removeAllOverlays(@)])
                   ELSE k
    IN IF enabled THEN [cleared EXCEPT !.symbol = ticker] ELSE cleared

\* Mutant: a change of ticker binds the facade and keeps chart and map.
symbolPeriodEffect_KeepsMap(k, prevTicker, ticker) ==
    IF enabled THEN [k EXCEPT !.symbol = ticker] ELSE k

\* The symbol/period effect while not loading, up to the history request.
symbolPeriodEffect(k, prevTicker, ticker) ==
    LET cleared == IF prevTicker # NoPrev /\ enabled /\ prevTicker # ticker
                   THEN clearOverlays(
                            [k EXCEPT !.engine = IF k.widget = "null" THEN @
                                                 ELSE removeAllOverlays(@)])
                   ELSE k
    IN IF enabled THEN [cleared EXCEPT !.symbol = ticker] ELSE cleared

----------------------------------------------------------------------------
(* The component's events *)

K == [map |-> overlayMap, engine |-> engine, store |-> localStorage,
      symbol |-> storageSymbol, widget |-> widget, writes |-> <<>>,
      reads |-> <<>>, calls |-> <<>>, threw |-> FALSE]

\* What the handler left; the provider calls it made are in flight.
Commit(k) ==
    /\ overlayMap' = k.map
    /\ engine' = k.engine
    /\ localStorage' = k.store
    /\ storageSymbol' = k.symbol
    /\ widget' = k.widget
    /\ pendingSync' = pendingSync \o k.calls

\* Overlays of earlier sessions, as a chart held them.
Live(id, groupId, name, lock) ==
    [id |-> id, groupId |-> groupId, name |-> name,
     points |-> <<[timestamp |-> 7, value |-> 100]>>, lock |-> lock,
     visible |-> TRUE, mode |-> "normal", extendData |-> Undefined,
     styles |-> Undefined]

\* What saveOverlays wrote for them.
StoredText(overlays) ==
    JSONstringify(Arr([i \in 1..Len(overlays) |-> serializeOverlay(overlays[i])]))

\* An earlier session drew two overlays on AAPL and none on GOOGL.
PresetText(s) ==
    IF s = "AAPL"
    THEN StoredText(<<Live("a1", "drawing_tools", "horizontalStraightLine", FALSE),
                      Live("a2", "shapes", "rect", TRUE)>>)
    ELSE NoItem

Init ==
    /\ localStorage = [k \in StorageKeys |->
                         IF k = getStorageKey("AAPL")
                         THEN PresetText("AAPL") ELSE PresetText("GOOGL")]
    /\ foreignUsed = 0
    /\ storeAccess \in BOOLEAN
    /\ last = NoCall
    /\ saved = [s \in Symbols |-> Void]
    /\ facadeSymbol = "AAPL"
    /\ hasProvider = TRUE
    /\ cloud = [s \in Symbols |-> Void]
    /\ pendingSync = <<>>
    /\ roundTrip = NoRoundTrip
    /\ SerializerIdle
    /\ enabled \in BOOLEAN
    /\ mounted = FALSE
    /\ widget = "null"
    /\ engine = {}
    /\ overlayMap = <<>>
    /\ storageSymbol = "AAPL"
    /\ autoSaveIntervalId = FALSE
    /\ liveIntervals = 0
    /\ symbolTicker = "AAPL"
    /\ loading = FALSE
    /\ prev = NoPrev
    /\ effectSubscribed = FALSE
    /\ pending = <<>>
    /\ nextId = 0
    /\ mounts = 0
    /\ gone = {}
    /\ tickSaved = {}
    /\ drawnHere = {}
    /\ drawingBarVisible = TRUE
    /\ barLock = FALSE
    /\ barVisible = TRUE
    /\ barMode = "normal"
    /\ barMagnet = "weak_magnet"
    /\ sideSteps = <<>>
    /\ others = <<>>

StoreFrame ==
    UNCHANGED <<foreignUsed, storeAccess, last, saved, facadeSymbol, hasProvider,
                cloud, roundTrip, enabled, serVars>>

\* What only a page load, a teardown, the bar's switches, the menu button
\* and the steps beside the main flow change.
BarFrame ==
    UNCHANGED <<drawingBarVisible, barLock, barVisible, barMode, barMagnet,
                sideSteps, others>>

\* A drawing bar as it is built: unlocked, visible, in normal mode, its mode
\* switch set to turn on the weak magnet.
NewBar ==
    /\ barLock' = FALSE
    /\ barVisible' = TRUE
    /\ barMode' = "normal"
    /\ barMagnet' = "weak_magnet"

\* A call of getHistoryKLineData in flight. For a request made by a change of
\* ticker, atSwitch and old record what the call found: the records stored
\* under the new ticker's key and the ids the chart held.
HistoryRequest(kind, ticker, doLoad) ==
    [kind |-> kind, ticker |-> ticker, doLoad |-> doLoad,
     atSwitch |-> IF doLoad
                  THEN OverlayStorage_load(localStorage, storeAccess, ticker).ret
                  ELSE Void,
     old |-> IF doLoad THEN {o.id : o \in engine} ELSE {}]

\* A page load: the component is built for symbol s, onMount runs (chart
\* created, loadOverlays, startAutoSave), then the symbol/period effect runs
\* for the first time and requests the history. Mount is the component the
\* behaviour follows; a further chart built beside it is MountAnother.
MountResult(s) ==
    symbolPeriodEffect(
        loadOverlays([map |-> <<>>, engine |-> {}, store |-> localStorage,
                      symbol |-> s, widget |-> "live", writes |-> <<>>,
                      reads |-> <<>>, calls |-> <<>>, threw |-> FALSE]),
        NoPrev, s)

\* When loadOverlays throws, onMount ends there: the chart exists, but
\* startAutoSave is not reached and the effects queued behind onMount, the
\* symbol/period effect among them, never run.
Mount(s) ==
    /\ ~mounted
    /\ mounts < MaxMounts
    /\ UNCHANGED others
    /\ LET k == MountResult(s)
       IN /\ Commit(k)
          /\ pending' = IF k.threw THEN <<>> ELSE <<HistoryRequest("new", s, FALSE)>>
          /\ autoSaveIntervalId' = (enabled /\ ~k.threw)
          /\ liveIntervals' = liveIntervals + (IF enabled /\ ~k.threw THEN 1 ELSE 0)
          /\ loading' = ~k.threw
          /\ prev' = IF k.threw THEN NoPrev ELSE s
          /\ effectSubscribed' = ~k.threw
    /\ symbolTicker' = s
    /\ mounted' = TRUE
    /\ mounts' = mounts + 1
    /\ tickSaved' = {}
    /\ drawnHere' = {}
    /\ drawingBarVisible' = TRUE
    /\ NewBar
    /\ UNCHANGED sideSteps
    /\ UNCHANGED <<nextId, gone>>
    /\ StoreFrame

\* Mutant: onCleanup saves the tracked overlays before it stops the interval.
Unmount_FinalSave ==
    /\ mounted
    /\ mounted' = FALSE
    /\ autoSaveIntervalId' = FALSE
    /\ liveIntervals' = IF autoSaveIntervalId THEN liveIntervals - 1 ELSE liveIntervals
    /\ LET k == saveOverlays(K)
       IN /\ localStorage' = k.store
          /\ overlayMap' = k.map
    /\ widget' = "disposed"
    /\ effectSubscribed' = FALSE
    /\ gone' = {}
    /\ drawingBarVisible' = TRUE
    /\ NewBar
    /\ UNCHANGED sideSteps
    /\ UNCHANGED <<others, pendingSync>>
    /\ UNCHANGED <<engine, storageSymbol, symbolTicker,
                   loading, prev, pending, nextId, mounts, tickSaved, drawnHere>>
    /\ StoreFrame

\* Mutant: onCleanup forgets the handle and leaves the interval running.
Unmount_NoStop ==
    /\ mounted
    /\ mounted' = FALSE
    /\ autoSaveIntervalId' = FALSE
    /\ widget' = "disposed"
    /\ effectSubscribed' = FALSE
    /\ gone' = {}
    /\ drawingBarVisible' = TRUE
    /\ NewBar
    /\ UNCHANGED sideSteps
    /\ UNCHANGED <<others, pendingSync>>
    /\ UNCHANGED <<localStorage, engine, overlayMap, storageSymbol, symbolTicker,
                   loading, prev, pending, nextId, mounts, tickSaved, drawnHere,
                   liveIntervals>>
    /\ StoreFrame

\* onCleanup: stopAutoSave, dispose the chart. The effects end with the component.
Unmount ==
    /\ mounted
    /\ mounted' = FALSE
    /\ autoSaveIntervalId' = FALSE
    /\ liveIntervals' = IF autoSaveIntervalId THEN liveIntervals - 1 ELSE liveIntervals
    /\ widget' = "disposed"
    /\ effectSubscribed' = FALSE
    /\ gone' = {}
    /\ drawingBarVisible' = TRUE
    /\ NewBar
    /\ UNCHANGED sideSteps
    /\ UNCHANGED <<others, pendingSync>>
    /\ UNCHANGED <<localStorage, engine, overlayMap, storageSymbol, symbolTicker,
                   loading, prev, pending, nextId, mounts, tickSaved, drawnHere>>
    /\ StoreFrame

\* The ids of the last save of a handler, if the store accepted it.
AcceptedIds(writes) ==
    IF writes # <<>> /\ writes[Len(writes)].accepted
    THEN {writes[Len(writes)].value.recs[i].id :
            i \in 1..Len(writes[Len(writes)].value.recs)}
    ELSE {}

\* The auto-save interval fires.
TickResult == IF Len(overlayMap) > 0 THEN saveOverlays(K) ELSE K

Tick ==
    /\ liveIntervals > Len(others)
    /\ \E k \in {TickResult} :
          /\ Commit(k)
          /\ tickSaved' = tickSaved \cup (drawnHere \cap AcceptedIds(k.writes))
    /\ UNCHANGED <<mounted, autoSaveIntervalId, liveIntervals, symbolTicker, loading,
                   prev, effectSubscribed, pending, nextId, mounts, gone, drawnHere>>
    /\ BarFrame
    /\ StoreFrame

\* The request the drawing bar hands to onDrawingItemClick: for a click on a
\* tool's icon its group, the tool's name and the bar's visible, lock and mode;
\* for a click on an item of a tool's list the name and the bar's lock and mode.
DrawingRequest(g) ==
    IF g = NoGroupId
    THEN [name |-> "horizontalStraightLine", lock |-> barLock, mode |-> barMode]
    ELSE [name |-> "horizontalStraightLine", groupId |-> g,
          lock |-> barLock, visible |-> barVisible, mode |-> barMode]

\* onDrawingItemClick: the user picks a drawing tool and the chart is asked
\* for the overlay of the bar's request.
DrawResult(g) ==
    LET created == createOverlay(engine, DrawingRequest(g), GeneratedId(nextId + 1))
    IN IF created.id # NullId
       THEN trackOverlay([K EXCEPT !.engine = created.engine], created.id)
       ELSE K

Draw(g) ==
    /\ mounted
    /\ drawingBarVisible
    /\ nextId < MaxDraws
    /\ LET k == DrawResult(g)
       IN /\ Commit(k)
          /\ drawnHere' = drawnHere \cup (MapKeys(k.map) \cap {GeneratedId(nextId + 1)})
    /\ nextId' = nextId + 1
    /\ UNCHANGED <<mounted, autoSaveIntervalId, liveIntervals, symbolTicker, loading,
                   prev, effectSubscribed, pending, mounts, gone, tickSaved>>
    /\ BarFrame
    /\ StoreFrame

\* onRemoveClick(groupId); the drawing bar calls it with its own group.
overlaysToRemove(g) ==
    LET tracked == SelectSeq([i \in 1..Len(overlayMap) |-> overlayMap[i].val],
                             LAMBDA o : o.groupId = g)
    IN [i \in 1..Len(tracked) |-> tracked[i].id]

RemoveResult(g) ==
    untrackEach([K EXCEPT !.engine = removeOverlayGroup(@, g)], overlaysToRemove(g), 1)

RemovedIds(g) == {overlaysToRemove(g)[i] : i \in 1..Len(overlaysToRemove(g))}

Remove(g) ==
    /\ mounted
    /\ drawingBarVisible
    /\ LET k == RemoveResult(g)
           removed == RemovedIds(g)
       IN /\ Commit(k)
          /\ gone' = IF k.writes # <<>> /\ k.writes[Len(k.writes)].accepted
                     THEN gone \cup removed ELSE gone
          /\ tickSaved' = tickSaved \ removed
          /\ drawnHere' = drawnHere \ removed
    /\ UNCHANGED <<mounted, autoSaveIntervalId, liveIntervals, symbolTicker, loading,
                   prev, effectSubscribed, pending, nextId, mounts>>
    /\ BarFrame
    /\ StoreFrame

\* The tracked objects after the chart changed its overlays. overlayMap holds
\* the objects getOverlayById returned; whether the chart changes those
\* objects or puts changed copies in their place is the chart library's
\* choice, so a tracked object either stays as it was or is the chart's
\* overlay of its id.
TrackedInPlace(m, e) ==
    [i \in 1..Len(m) |->
       IF HasOverlay(e, m[i].key)
       THEN [key |-> m[i].key, val |-> getOverlayById(e, m[i].key)]
       ELSE m[i]]

\* What a handler that changed the chart's overlays may have left.
Overridden(k) == {k, [k EXCEPT !.map = TrackedInPlace(@, k.engine)]}

\* What a click on a switch of the drawing bar or on the menu button leaves
\* alone.
SwitchFrame ==
    /\ UNCHANGED <<mounted, autoSaveIntervalId, liveIntervals, symbolTicker,
                   loading, prev, effectSubscribed, pending, nextId, mounts,
                   gone, tickSaved, drawnHere, others>>
    /\ StoreFrame

\* Values of the bar's magnet mode.
MagnetModes == {"weak_magnet", "strong_magnet"}

\* A click on the bar's lock switch: the bar turns its switch and calls
\* onLockChange(lock) with the new position.
LockChange(lock) ==
    /\ mounted
    /\ drawingBarVisible
    /\ Len(sideSteps) < MaxSideSteps
    /\ lock = ~barLock
    /\ barLock' = lock
    /\ sideSteps' = Append(sideSteps, "bar")
    /\ UNCHANGED <<drawingBarVisible, barVisible, barMode, barMagnet>>
    /\ \E k \in Overridden(onLockChange(K, lock)) : Commit(k)
    /\ SwitchFrame

\* A click on the bar's visible switch: the bar turns its switch and calls
\* onVisibleChange(visible) with the new position.
VisibleChange(visible) ==
    /\ mounted
    /\ drawingBarVisible
    /\ Len(sideSteps) < MaxSideSteps
    /\ visible = ~barVisible
    /\ barVisible' = visible
    /\ sideSteps' = Append(sideSteps, "bar")
    /\ UNCHANGED <<drawingBarVisible, barLock, barMode, barMagnet>>
    /\ \E k \in Overridden(onVisibleChange(K, visible)) : Commit(k)
    /\ SwitchFrame

\* A click on the bar's mode switch: from normal mode it turns on the bar's
\* magnet mode, from a magnet mode it goes back to normal, and the bar calls
\* onModeChange(mode) with the new mode.
ModeChange(mode) ==
    /\ mounted
    /\ drawingBarVisible
    /\ Len(sideSteps) < MaxSideSteps
    /\ mode = (IF barMode # "normal" THEN "normal" ELSE barMagnet)
    /\ barMode' = mode
    /\ sideSteps' = Append(sideSteps, "bar")
    /\ UNCHANGED <<drawingBarVisible, barLock, barVisible, barMagnet>>
    /\ \E k \in Overridden(onModeChange(K, mode)) : Commit(k)
    /\ SwitchFrame

\* A click on an item of the mode list: the bar takes the item's magnet mode
\* as its magnet mode and as its mode and calls onModeChange with it.
ModeItem(key) ==
    /\ mounted
    /\ drawingBarVisible
    /\ Len(sideSteps) < MaxSideSteps
    /\ barMagnet' = key
    /\ barMode' = key
    /\ sideSteps' = Append(sideSteps, "bar")
    /\ UNCHANGED <<drawingBarVisible, barLock, barVisible>>
    /\ \E k \in Overridden(onModeChange(K, key)) : Commit(k)
    /\ SwitchFrame

\* onMenuClick: the drawing bar is hidden, or shown again. A bar shown again
\* is a new DrawingBar with its switches as built; the chart's overlays stay
\* as the old bar's switches left them.
MenuClick ==
    /\ mounted
    /\ Len(sideSteps) < MaxSideSteps
    /\ drawingBarVisible' = ~drawingBarVisible
    /\ NewBar
    /\ sideSteps' = Append(sideSteps, "bar")
    /\ UNCHANGED <<localStorage, engine, overlayMap, storageSymbol, widget,
                   pendingSync>>
    /\ SwitchFrame

\* The symbol() or period() signal is set and the symbol/period effect, if it
\* still depends on them, runs: with loading set it returns at once, having
\* read no signal, and so is never run again.
RunEffect(ticker) ==
    /\ symbolTicker' = ticker
    /\ IF effectSubscribed /\ ~loading
       THEN /\ Len(pending) < MaxPending
            /\ LET k == symbolPeriodEffect(K, prev, ticker) IN Commit(k)
            /\ pending' = Append(pending,
                              HistoryRequest("new", ticker, prev # ticker))
            /\ loading' = TRUE
            /\ prev' = ticker
            /\ UNCHANGED effectSubscribed
       ELSE /\ effectSubscribed' = FALSE
            /\ UNCHANGED <<localStorage, engine, overlayMap, storageSymbol, widget,
                           loading, prev, pending, pendingSync>>
    /\ tickSaved' = IF ticker # symbolTicker THEN {} ELSE tickSaved
    /\ drawnHere' = IF ticker # symbolTicker THEN {} ELSE drawnHere
    /\ UNCHANGED <<mounted, autoSaveIntervalId, liveIntervals, nextId, mounts, gone>>
    /\ BarFrame
    /\ StoreFrame

\* setSymbol / onSymbolSelected: another symbol object, of any ticker.
SetSymbol(ticker) == mounted /\ RunEffect(ticker)

\* setPeriod / onPeriodChange.
SetPeriod == mounted /\ RunEffect(symbolTicker)

\* onMount ran to its end, so the chart was given the loadMore callback, the
\* last thing onMount hands it after loadOverlays and startAutoSave. A mount
\* whose loadOverlays threw ended before, and left prev at NoPrev.
OnMountDone == mounted /\ prev # NoPrev

\* The chart asks for older data (loadMore callback).
LoadMore ==
    /\ OnMountDone
    /\ Len(pending) < MaxPending
    /\ \A i \in 1..Len(pending) : pending[i].kind # "more"
    /\ loading' = TRUE
    /\ pending' = Append(pending, HistoryRequest("more", symbolTicker, FALSE))
    /\ UNCHANGED <<localStorage, engine, overlayMap, storageSymbol, widget, mounted,
                   autoSaveIntervalId, liveIntervals, symbolTicker, prev,
                   effectSubscribed, nextId, mounts, gone, tickSaved, drawnHere,
                   pendingSync>>
    /\ BarFrame
    /\ StoreFrame

\* getHistoryKLineData resolves and the rest of get() runs.
ResolveResult(i) ==
    IF pending[i].kind = "new" /\ enabled /\ pending[i].doLoad
    THEN loadOverlays(K) ELSE K

\* When loadOverlays throws, get() ends there and loading is not reset.
HistoryResolve(i) ==
    /\ LET k == ResolveResult(i)
       IN /\ Commit(k)
          /\ loading' = IF k.threw THEN loading ELSE FALSE
    /\ pending' = Drop(pending, i)
    /\ UNCHANGED <<mounted, autoSaveIntervalId, liveIntervals, symbolTicker, prev,
                   effectSubscribed, nextId, mounts, gone, tickSaved, drawnHere>>
    /\ BarFrame
    /\ StoreFrame

\* getHistoryKLineData rejects: the await throws, nothing catches it and the
\* rest of get() does not run: no data is applied, nothing is loaded and
\* loading is not reset.
RejectResult(i) == K

HistoryReject(i) ==
    /\ LET k == RejectResult(i) IN Commit(k)
    /\ pending' = Drop(pending, i)
    /\ UNCHANGED <<mounted, autoSaveIntervalId, liveIntervals, symbolTicker, loading,
                   prev, effectSubscribed, nextId, mounts, gone, tickSaved, drawnHere>>
    /\ BarFrame
    /\ StoreFrame

----------------------------------------------------------------------------
(* Steps of the page that are no handler of the component *)

\* What such a step leaves of the component.
ComponentFrame ==
    /\ UNCHANGED <<storageSymbol, widget, mounted, autoSaveIntervalId,
                   symbolTicker, loading, prev, effectSubscribed, pending,
                   nextId, mounts, gone, tickSaved, drawnHere,
                   drawingBarVisible, barLock, barVisible, barMode, barMagnet,
                   pendingSync>>
    /\ StoreFrame

\* The overlays the host can remove on its own: those the chart holds.
ApiRemovable == {o.id : o \in engine}

\* The host removes one overlay through the chart it got from getApi(); the
\* component is not told.
ApiRemove(id) ==
    /\ mounted
    /\ Len(sideSteps) < MaxSideSteps
    /\ HasOverlay(engine, id)
    /\ engine' = removeOverlayById(engine, id)
    /\ sideSteps' = Append(sideSteps, "chart")
    /\ UNCHANGED <<localStorage, overlayMap, liveIntervals, others>>
    /\ ComponentFrame

\* The user moves an overlay on the chart, or places the points of a drawing:
\* the chart changes the overlay's points; the component is not told.
MoveOverlay(id) ==
    /\ mounted
    /\ Len(sideSteps) < MaxSideSteps
    /\ HasOverlay(engine, id)
    /\ getOverlayById(engine, id).points # MovedPoints
    /\ engine' = moveOverlay(engine, id)
    /\ overlayMap' \in {overlayMap, TrackedInPlace(overlayMap, moveOverlay(engine, id))}
    /\ sideSteps' = Append(sideSteps, "chart")
    /\ UNCHANGED <<localStorage, liveIntervals, others>>
    /\ ComponentFrame

\* The record of an overlay of the host's own, and the array the host saves.
HostRecord == serializeOverlay(Live("h1", "drawing_tools", "rect", FALSE))
HostOverlays == Arr(<<HostRecord>>)

\* The host creates an overlay of its own through the chart it got from
\* getApi(), with the request deserializeOverlay makes of its record; the
\* component is not told, so the overlay is not tracked.
ApiCreate ==
    /\ mounted
    /\ Len(sideSteps) < MaxSideSteps
    /\ LET created == createOverlay(engine, deserializeOverlay(HostRecord),
                                    GeneratedId(nextId + 1))
       IN /\ created.id # NullId
          /\ engine' = created.engine
    /\ sideSteps' = Append(sideSteps, "create")
    /\ UNCHANGED <<localStorage, overlayMap, liveIntervals, others>>
    /\ ComponentFrame

\* The page builds a further chart for symbol s while the first is alive (new
\* KLineChartPro keeps no disposer, so nothing ends a chart it built): a second
\* component on the same localStorage, with a chart, a map and an interval of
\* its own. The user goes on working with the first chart and leaves the new
\* one alone, so the new one tracks for good what its loadOverlays created.
\* Without persistence, or when its loadOverlays throws, it has no interval.
MountAnother(s) ==
    /\ mounted
    /\ Len(sideSteps) < MaxSideSteps
    /\ LET k == MountResult(s)
       IN IF enabled /\ ~k.threw
          THEN /\ others' = Append(others,
                                [symbol |-> k.symbol,
                                 value |-> Arr([i \in 1..Len(k.map) |->
                                                 serializeOverlay(k.map[i].val)])])
               /\ liveIntervals' = liveIntervals + 1
          ELSE UNCHANGED <<others, liveIntervals>>
    /\ sideSteps' = Append(sideSteps, "page")
    /\ UNCHANGED <<localStorage, engine, overlayMap>>
    /\ ComponentFrame

\* The interval of a further chart of the page fires: it saves what that
\* chart tracks, if it tracks anything, under the symbol that chart shows.
TickOther(j) ==
    /\ localStorage' =
          IF Len(others[j].value.recs) > 0
          THEN OverlayStorage_save(localStorage, foreignUsed, storeAccess,
                                   others[j].symbol, others[j].value).store
          ELSE localStorage
    /\ UNCHANGED <<engine, overlayMap, liveIntervals, others, sideSteps>>
    /\ ComponentFrame

\* The host calls clearOverlaysFromLocalStorage(s), which the package exports.
HostClear(s) ==
    /\ Len(sideSteps) < MaxSideSteps
    /\ localStorage' = clearOverlaysFromLocalStorage(localStorage, storeAccess, s).store
    /\ sideSteps' = Append(sideSteps, "clear")
    /\ UNCHANGED <<engine, overlayMap, liveIntervals, others>>
    /\ ComponentFrame

\* The host calls saveOverlaysToLocalStorage(s, overlays), which the package
\* exports, with records of its own. The save of an OverlayStorage the host
\* built for s, and the end of its syncFromCloud, make the same call.
HostSave(s) ==
    /\ Len(sideSteps) < MaxSideSteps
    /\ localStorage' = saveOverlaysToLocalStorage(localStorage, foreignUsed, storeAccess,
                                                  s, HostOverlays).store
    /\ sideSteps' = Append(sideSteps, "save")
    /\ UNCHANGED <<engine, overlayMap, liveIntervals, others>>
    /\ ComponentFrame

\* Another writer of the origin fills the quota to the last character, or
\* frees what it filled.
CoordForeignFill ==
    /\ Len(sideSteps) < MaxSideSteps
    /\ ForeignFillStore
    /\ sideSteps' = Append(sideSteps, "origin")
    /\ UNCHANGED <<last, facadeVars, serVars>>
    /\ UNCHANGED <<enabled, mounted, widget, engine, overlayMap, storageSymbol,
                   autoSaveIntervalId, liveIntervals, symbolTicker, loading, prev,
                   effectSubscribed, pending, nextId, mounts, gone, tickSaved,
                   drawnHere, drawingBarVisible, barLock, barVisible, barMode,
                   barMagnet, others>>

CoordForeignFree ==
    /\ ForeignFreeStore
    /\ UNCHANGED <<last, facadeVars, coordVars, serVars>>

Next ==
    \/ \E s \in Symbols : Mount(s)
    \/ Unmount
    \/ Tick
    \/ \E g \in DrawingClicks : Draw(g)
    \/ \E g \in DrawingGroupIds : Remove(g)
    \/ \E b \in BOOLEAN : LockChange(b)
    \/ \E b \in BOOLEAN : VisibleChange(b)
    \/ \E m \in MagnetModes \cup {"normal"} : ModeChange(m)
    \/ \E m \in MagnetModes : ModeItem(m)
    \/ MenuClick
    \/ \E t \in Symbols : SetSymbol(t)
    \/ SetPeriod
    \/ LoadMore
    \/ \E i \in 1..Len(pending) : HistoryResolve(i)
    \/ \E i \in 1..Len(pending) : HistoryReject(i)
    \/ \E id \in ApiRemovable : ApiRemove(id)
    \/ \E id \in ApiRemovable : MoveOverlay(id)
    \/ ApiCreate
    \/ \E s \in Symbols : MountAnother(s)
    \/ \E j \in 1..Len(others) : TickOther(j)
    \/ \E s \in Symbols : HostClear(s)
    \/ \E s \in Symbols : HostSave(s)
    \/ CoordForeignFill
    \/ CoordForeignFree

Spec == Init /\ [][Next]_vars

----------------------------------------------------------------------------
(* Claims about the component, checked under Spec *)

StoredIds(st, s) ==
    LET v == OverlayStorage_load(st, storeAccess, s).ret
    IN {v.recs[i].id : i \in 1..Len(v.recs)}

\* The tracked overlays are what is stored under s's key.
TrackedPersisted(s) ==
    OverlayStorage_load(localStorage, storeAccess, s).ret.recs
        = [i \in 1..Len(overlayMap) |-> StripUndefined(serializeOverlay(overlayMap[i].val))]

\* A step of another writer of the page's store: the interval of a further
\* chart fires, or the host clears a key or saves under one.
OtherWrites ==
    \/ \E s \in Symbols : HostClear(s)
    \/ \E s \in Symbols : HostSave(s)
    \/ \E j \in 1..Len(others) : TickOther(j)

\* No one else has stored records so far: the page has built no further chart
\* and the host has saved under no key.
NoOtherSave ==
    /\ others = <<>>
    /\ \A i \in 1..Len(sideSteps) : sideSteps[i] # "save"

\* The component has been the only writer of the keys so far: no one else
\* has stored records and the host has cleared no key.
Alone ==
    /\ NoOtherSave
    /\ \A i \in 1..Len(sideSteps) : sideSteps[i] # "clear"

\* The chart holds no overlay the host created through the chart API.
NoHostOverlay == \A i \in 1..Len(sideSteps) : sideSteps[i] # "create"

\* C1 as stated: with persistence enabled and a mounted session showing S
\* whose k >= 1 tracked overlays are persisted under S's key, a change of
\* symbol to T # S leaves the value stored under S's key unchanged, and when
\* the switch has completed (its history request resolved) the chart holds
\* exactly the overlays that were persisted for T.
C1_AsStated ==
    [][/\ \A t \in Symbols :
            (/\ SetSymbol(t)
             /\ enabled
             /\ t # symbolTicker
             /\ storageSymbol = symbolTicker
             /\ Len(overlayMap) >= 1
             /\ TrackedPersisted(symbolTicker))
            => localStorage'[getStorageKey(symbolTicker)]
                   = localStorage[getStorageKey(symbolTicker)]
       /\ \A i \in 1..Len(pending) :
            (/\ HistoryResolve(i)
             /\ enabled
             /\ Alone
             /\ NoHostOverlay
             /\ pending[i].doLoad
             /\ pending[i].ticker = symbolTicker)
            => {o.id : o \in engine'}
                   = {pending[i].atSwitch.recs[j].id :
                        j \in 1..Len(pending[i].atSwitch.recs)}]_vars

\* C2: when the removal handler has run for a group with tracked overlays, it
\* has flushed within the same event, every write of it going to the current
\* symbol's key, and if the store accepted the last write the set stored
\* under the current symbol's key holds none of the removed ids; no later
\* auto-save tick of the session writes a set with an id so removed. The
\* current symbol's key is the one the facade is bound to, and also the key of
\* the symbol shown as long as no one else has stored records; the ticks are
\* the component's own: a further chart's interval stores what that chart
\* tracks, and the host stores what it likes.
C2_RemovalFlush ==
    [][/\ \A g \in GroupIds :
            (enabled /\ mounted /\ RemovedIds(g) # {} /\ Remove(g))
            => LET writes == RemoveResult(g).writes
               IN /\ writes # <<>>
                  /\ \A i \in 1..Len(writes) : writes[i].symbol = storageSymbol
                  /\ writes[Len(writes)].accepted
                       => \A s \in {storageSymbol} \cup
                                   (IF NoOtherSave THEN {symbolTicker} ELSE {}) :
                            StoredIds(localStorage', s) \cap RemovedIds(g) = {}
       /\ (gone # {} /\ Tick /\ NoOtherSave)
            => LET writes == TickResult.writes
               IN \A i \in 1..Len(writes) :
                    \A j \in 1..Len(writes[i].value.recs) :
                      writes[i].value.recs[j].id \notin gone]_vars

\* A removal was flushed and accepted, the timer still runs, and overlays are
\* still tracked.
C2_Witness ==
    /\ gone # {}
    /\ liveIntervals > 0
    /\ Len(overlayMap) > 0
    /\ StoredIds(localStorage, storageSymbol) \cap gone = {}
    /\ StoredIds(localStorage, storageSymbol) # {}

\* C3 as stated: an overlay the user created, that an auto-save tick then
\* wrote (the store accepting the write) with no change of symbol since its
\* creation, is on the next mount with the same symbol and persistence
\* enabled recreated in the chart with the same id and persisted fields, and
\* tracked.
C3_AsStated ==
    [][\A s \in Symbols :
         (Mount(s) /\ enabled /\ s = symbolTicker /\ Alone)
         => \A id \in tickSaved :
              /\ HasOverlay(engine', id)
              /\ id \in MapKeys(overlayMap')
              /\ \E i \in 1..Len(OverlayStorage_load(localStorage, storeAccess, s).ret.recs) :
                   OverlayStorage_load(localStorage, storeAccess, s).ret.recs[i]
                     = StripUndefined(serializeOverlay(getOverlayById(engine', id)))]_vars

\* C3 holds of the sessions in which the store is bound to the symbol shown.
C3_BoundToShown ==
    [][\A s \in Symbols :
         (/\ Mount(s) /\ enabled /\ s = symbolTicker /\ Alone
          /\ storageSymbol = symbolTicker)
         => \A id \in tickSaved :
              /\ HasOverlay(engine', id)
              /\ id \in MapKeys(overlayMap')]_vars

\* C4 as stated: after a change of symbol to T of another ticker, with
\* persistence enabled, when the load sequence of the switch has run (its
\* history request resolved) every record that was stored under T's key at
\* the switch is in the chart and tracked, and no overlay the chart held
\* before the switch is in it.
C4_AsStated ==
    [][\A i \in 1..Len(pending) :
         (/\ HistoryResolve(i)
          /\ enabled
          /\ Alone
          /\ pending[i].doLoad
          /\ pending[i].ticker = symbolTicker
          /\ pending[i].ticker = storageSymbol)
         => /\ \A j \in 1..Len(pending[i].atSwitch.recs) :
                 /\ HasOverlay(engine', pending[i].atSwitch.recs[j].id)
                 /\ pending[i].atSwitch.recs[j].id \in MapKeys(overlayMap')
            /\ \A id \in pending[i].old :
                 HasOverlay(engine', id)
                   => \E j \in 1..Len(pending[i].atSwitch.recs) :
                        pending[i].atSwitch.recs[j].id = id]_vars

----------------------------------------------------------------------------
(* Claims about the local store adapter, checked under SpecStore *)

\* What load returns for a symbol in a given store.
Loaded(st, s) == loadOverlaysFromLocalStorage(st, storeAccess, s).ret

NonEmptyArr(v) == v.tag = "array" /\ Len(v.recs) > 0

Disjoint(x, y) ==
    \A i \in 1..Len(x.recs), j \in 1..Len(y.recs) : x.recs[i] # y.recs[j]

\* A save or a clear on another symbol leaves what load returns for a.
IsolatedStep(a) ==
    (last'.op \in {"save", "clear"} /\ last'.symbol # a)
        => Loaded(localStorage', a) = Loaded(localStorage, a)

\* C5 (as amended): a save or a clear on symbol B never changes what load
\* returns for another symbol A; and after save(A, X); save(B, Y) that the store
\* both accepted, with disjoint non-empty JSON-representable X and Y,
\* load(A) = X and load(B) = Y.
C5_SymbolIsolation ==
    [][/\ \A a \in Symbols : IsolatedStep(a)
       /\ (/\ last.op = "save" /\ last'.op = "save"
           /\ last.symbol # last'.symbol
           /\ NonEmptyArr(last.arg) /\ NonEmptyArr(last'.arg)
           /\ Disjoint(last.arg, last'.arg)
           /\ ~last.raised /\ ~last'.raised
           /\ JsonRepresentable(last.arg) /\ JsonRepresentable(last'.arg))
          => /\ Loaded(localStorage', last.symbol) = last.arg
             /\ Loaded(localStorage', last'.symbol) = last'.arg]_vars

\* C5 as stated: after save(A, X); save(B, Y) with disjoint non-empty X and Y,
\* load(A) = X and load(B) = Y, whether or not the store took the writes.
C5_AsStated ==
    [][/\ \A a \in Symbols : IsolatedStep(a)
       /\ (/\ last.op = "save" /\ last'.op = "save"
           /\ last.symbol # last'.symbol
           /\ NonEmptyArr(last.arg) /\ NonEmptyArr(last'.arg)
           /\ Disjoint(last.arg, last'.arg))
          => /\ Loaded(localStorage', last.symbol) = last.arg
             /\ Loaded(localStorage', last'.symbol) = last'.arg]_vars

\* Two symbols hold disjoint non-empty saved sets, the second just saved.
C5_Witness ==
    /\ last.op = "save" /\ ~last.raised /\ NonEmptyArr(last.arg)
    /\ \E a \in Symbols \ {last.symbol} :
         /\ NonEmptyArr(saved[a])
         /\ Disjoint(saved[a], last.arg)
         /\ Loaded(localStorage, a) = saved[a]
         /\ Loaded(localStorage, last.symbol) = last.arg

\* C6: load(S) after an accepted save(S, X) of a JSON-representable array X,
\* with no other write to S's key in between, returns an array equal to X.
C6_LoadAfterSave ==
    \A s \in Symbols :
        (saved[s] # Void /\ JsonRepresentable(saved[s]))
            => /\ Loaded(localStorage, s) = saved[s]
               /\ (last.op = "load" /\ last.symbol = s) => last.ret = saved[s]

\* load has just returned the two records saved before it.
C6_Witness ==
    /\ last.op = "load"
    /\ saved[last.symbol] = Arr(<<RecO1, RecO2>>)
    /\ last.ret = Arr(<<RecO1, RecO2>>)

\* C7: clear(S) followed by load(S) returns the empty array, and clear(S)
\* does not change what load returns for any other symbol (for every S, with
\* saved data or not).
C7_LoadAfterClear ==
    [][/\ last'.op = "clear"
           => /\ Loaded(localStorage', last'.symbol) = EmptyArr
              /\ \A a \in Symbols \ {last'.symbol} :
                    Loaded(localStorage', a) = Loaded(localStorage, a)
       /\ (last.op = "clear" /\ last'.op = "load" /\ last'.symbol = last.symbol)
           => last'.ret = EmptyArr]_vars

\* A symbol with saved data was cleared while the other symbol keeps its data.
C7_Witness ==
    /\ last.op = "clear" /\ ~last.raised
    /\ localStorage[getStorageKey(last.symbol)] = NoItem
    /\ \E a \in Symbols \ {last.symbol} : NonEmptyArr(Loaded(localStorage, a))

\* C8: load never throws, and returns the empty array when the key was never
\* written, when the stored text is not JSON and when the store throws on read.
C8_LoadNeverThrows ==
    last.op = "load"
        => /\ ~last.threw
           /\ (\/ localStorage[getStorageKey(last.symbol)].json \in {"none", "invalid"}
               \/ GetItemThrows(storeAccess))
              => last.ret = EmptyArr

\* load met a text that is not JSON and returned the empty array.
C8_Witness ==
    /\ last.op = "load" /\ last.raised /\ storeAccess
    /\ localStorage[getStorageKey(last.symbol)] = InvalidText
    /\ last.ret = EmptyArr

\* C9: save and clear never let an exception out, and a save that failed
\* (encoding or write) leaves the value under every key as it was.
C9_SaveClearNeverThrow ==
    [][last'.op \in {"save", "clear"}
         => /\ ~last'.threw
            /\ (last'.op = "save" /\ last'.raised) => localStorage' = localStorage]_vars

\* A save failed on an accessible store (quota or encoding) holding data.
C9_Witness ==
    /\ last.op = "save" /\ last.raised /\ ~last.threw /\ storeAccess
    /\ \E s \in Symbols : NonEmptyArr(Loaded(localStorage, s))

\* C37 as stated: loadOverlaysFromLocalStorage returns an array for every
\* stored text, also for text that is valid JSON but not an array. The code
\* returns what JSON.parse gave: for the text null the call returns null, and
\* loadOverlays' overlays.forEach then throws.
C37_AsStated == last.op = "load" => last.ret.tag = "array"

\* What the code does: the call returns an array unless the stored text is
\* valid JSON that is not an array, and then it returns the parsed value.
C37_ArrayUnlessOtherJson ==
    last.op = "load" =>
        IF localStorage[getStorageKey(last.symbol)].json = "null"
           /\ ~GetItemThrows(storeAccess)
        THEN last.ret = JsNull
        ELSE last.ret.tag = "array"

----------------------------------------------------------------------------
(* Claims about the facade, checked under SpecFacade *)

\* C10: with a provider that keeps what upload gave it, and no setSymbol and
\* no other local write in between, syncToCloud(); clear(); syncFromCloud()
\* leaves the local record set of the current symbol as it was before, and
\* syncFromCloud returns that set.
C10_CloudRoundTrip ==
    roundTrip.phase = "done"
        => /\ Loaded(localStorage, facadeSymbol) = roundTrip.orig
           /\ last.op = "syncFromCloud" /\ last.ret = roundTrip.orig

\* The sequence ended on a symbol that held a record, with the store full of
\* other data before the sequence began.
C10_Witness ==
    /\ roundTrip.phase = "done"
    /\ NonEmptyArr(roundTrip.orig)
    /\ foreignUsed > 0
    /\ Loaded(localStorage, facadeSymbol) = roundTrip.orig

\* The records the store holds under s's key, as a reader of the store sees
\* them: none when the key is absent, undecodable or no array, or the store
\* is denied.
StoredRecs(st, s) ==
    IF storeAccess /\ st[getStorageKey(s)].json = "array"
    THEN st[getStorageKey(s)].items
    ELSE <<>>

\* C11: syncToCloud of a facade with a provider makes exactly one provider
\* call, an upload with the facade's symbol and the records stored under that
\* symbol's key, and leaves local storage as it is, also when the upload
\* resolves; without a provider it makes no call, reads no key and leaves
\* local storage and the cloud as they are.
C11_SyncToCloud ==
    [][/\ (hasProvider /\ SyncToCloudCall)
            => /\ Len(pendingSync') = Len(pendingSync) + 1
               /\ SubSeq(pendingSync', 1, Len(pendingSync)) = pendingSync
               /\ pendingSync'[Len(pendingSync')].method = "upload"
               /\ pendingSync'[Len(pendingSync')].symbol = facadeSymbol
               /\ pendingSync'[Len(pendingSync')].payload.recs
                    = StoredRecs(localStorage, facadeSymbol)
               /\ localStorage' = localStorage
       /\ \A i \in 1..Len(pendingSync) :
            (pendingSync[i].method = "upload" /\ UploadResolve(i))
            => /\ pendingSync' = Drop(pendingSync, i)
               /\ localStorage' = localStorage
       /\ (~hasProvider /\ SyncToCloudNoProvider)
            => /\ pendingSync' = pendingSync
               /\ localStorage' = localStorage
               /\ cloud' = cloud
               /\ syncToCloud(localStorage, storeAccess, facadeSymbol,
                              hasProvider).reads = <<>>]_vars

\* An upload of stored records is in flight.
C11_Witness ==
    /\ last.op = "upload"
    /\ Len(pendingSync) = 1
    /\ pendingSync[1].method = "upload"
    /\ pendingSync[1].symbol = facadeSymbol
    /\ Len(pendingSync[1].payload.recs) > 0

\* What syncFromCloud does apart from the local write.
SyncFromCloudCalls ==
    /\ (hasProvider /\ SyncFromCloudCall)
         => /\ Len(pendingSync') = Len(pendingSync) + 1
            /\ SubSeq(pendingSync', 1, Len(pendingSync)) = pendingSync
            /\ pendingSync'[Len(pendingSync')].method = "download"
            /\ pendingSync'[Len(pendingSync')].symbol = facadeSymbol
            /\ localStorage' = localStorage
    /\ (~hasProvider /\ SyncFromCloudNoProvider)
         => /\ last'.ret = EmptyArr
            /\ pendingSync' = pendingSync
            /\ localStorage' = localStorage
            /\ cloud' = cloud

\* When the download resolves, syncFromCloud returns what was downloaded,
\* calls the provider no more, writes no other key, and if an array of records
\* was downloaded (and, when mustAccept, the store accepted the write) the
\* current symbol's key holds them.
SyncFromCloudResolves(mustAccept) ==
    \A i \in 1..Len(pendingSync) :
      (pendingSync[i].method = "download" /\ DownloadResolve(i))
      => /\ last'.ret = ProviderDownload(cloud, pendingSync[i].symbol)
         /\ ~last'.threw
         /\ pendingSync' = Drop(pendingSync, i)
         /\ \A s \in Symbols \ {facadeSymbol} :
              localStorage'[getStorageKey(s)] = localStorage[getStorageKey(s)]
         /\ (/\ ProviderDownload(cloud, pendingSync[i].symbol).tag = "array"
             /\ mustAccept => ~last'.raised)
              => /\ localStorage'[getStorageKey(facadeSymbol)].json = "array"
                 /\ StoredRecs(localStorage', facadeSymbol)
                      = ProviderDownload(cloud, pendingSync[i].symbol).recs

\* C12, amended: syncFromCloud with a provider calls download exactly once for
\* the current symbol, returns the downloaded records and, provided the store
\* accepts the write, replaces with them the record set under the current
\* symbol's key; without a provider it returns the empty array and leaves
\* local storage unchanged.
C12_SyncFromCloud == [][SyncFromCloudCalls /\ SyncFromCloudResolves(TRUE)]_vars

\* C12 as stated: the local record set is replaced whenever the download
\* resolves.
C12_AsStated == [][SyncFromCloudCalls /\ SyncFromCloudResolves(FALSE)]_vars

\* syncFromCloud has returned downloaded records and the store holds them.
C12_Witness ==
    /\ last.op = "syncFromCloud"
    /\ ~last.threw
    /\ ~last.raised
    /\ NonEmptyArr(last.ret)
    /\ StoredRecs(localStorage, facadeSymbol) = last.ret.recs

\* C13: when the provider's upload or download rejects, syncToCloud /
\* syncFromCloud rejects with that same error, the provider is not called
\* again, and neither the call nor its rejection changes local storage.
C13_RejectionPropagates ==
    [][/\ \A i \in 1..Len(pendingSync), e \in ProviderErrors :
            ProviderReject(i, e)
            => /\ last'.threw
               /\ last'.ret.tag = e
               /\ last'.op = (IF pendingSync[i].method = "upload"
                              THEN "syncToCloud" ELSE "syncFromCloud")
               /\ pendingSync' = Drop(pendingSync, i)
               /\ cloud' = cloud
               /\ localStorage' = localStorage
       /\ (hasProvider /\ (SyncToCloudCall \/ SyncFromCloudCall))
            => localStorage' = localStorage]_vars

\* A download was rejected while records were stored locally.
C13_Witness ==
    /\ last.threw
    /\ last.op = "syncFromCloud"
    /\ last.ret.tag = "AuthError"
    /\ pendingSync = <<>>
    /\ StoredRecs(localStorage, facadeSymbol) # <<>>


\* Symbols the key format is checked on, with a dash and the empty text.
KeySymbols == Symbols \cup {"AAPL-USD", "USD", "AAPL-", ""}

KeyText(s) == "klinecharts-pro-overlays-" \o s

\* C16: the key of symbol s is the text klinecharts-pro-overlays- followed by
\* s, different symbols have different keys, and save, load and clear of s
\* act on that key and on no other: an accepted save puts the encoded value
\* there, clear removes it, load decodes what is there.
C16_StorageKey ==
    [][/\ \A a \in KeySymbols : getStorageKey(a) = KeyText(a)
       /\ \A a, b \in KeySymbols : a # b => getStorageKey(a) # getStorageKey(b)
       /\ \A a \in Symbols :
            /\ (last'.op \in {"save", "load", "clear"} /\ last'.symbol = a)
                 => \A b \in Symbols \ {a} :
                      localStorage'[KeyText(b)] = localStorage[KeyText(b)]
            /\ \A x \in InputValues :
                 (Save(a, x) /\ ~last'.raised)
                 => localStorage'[KeyText(a)] = JSONstringify(x)
            /\ (Clear(a) /\ ~last'.raised) => localStorage'[KeyText(a)] = NoItem
            /\ (Load(a) /\ localStorage[KeyText(a)].json = "array" /\ storeAccess)
                 => last'.ret = Arr(localStorage[KeyText(a)].items)]_vars

\* A save of GOOGL was accepted while AAPL's key holds records of its own.
C16_Witness ==
    /\ last.op = "save"
    /\ last.symbol = "GOOGL"
    /\ ~last.raised
    /\ NonEmptyArr(last.arg)
    /\ localStorage["klinecharts-pro-overlays-GOOGL"].json = "array"
    /\ localStorage["klinecharts-pro-overlays-AAPL"].json = "array"
    /\ localStorage["klinecharts-pro-overlays-AAPL"]
         # localStorage["klinecharts-pro-overlays-GOOGL"]

\* The keys of the symbols the facade is not bound to are as they were.
OtherKeysKept ==
    \A s \in Symbols \ {facadeSymbol} :
        localStorage'[getStorageKey(s)] = localStorage[getStorageKey(s)]

\* C31: setSymbol(T) binds the facade to T and does nothing else: the store,
\* the provider and the calls in flight are as before. Every later save, load
\* and clear touches the key of the symbol bound and no other, syncToCloud
\* uploads what is stored for it under its name, syncFromCloud asks the
\* download for it, and the save that ends syncFromCloud goes to its key.
C31_SetSymbolRebinds ==
    [][/\ \A t \in Symbols :
            FacadeSetSymbol(t)
            => /\ facadeSymbol' = t
               /\ localStorage' = localStorage
               /\ cloud' = cloud
               /\ pendingSync' = pendingSync
       /\ \A x \in FacadeInputValues :
            FacadeSave(x)
            => /\ OtherKeysKept
               /\ ~last'.raised
                    => localStorage'[getStorageKey(facadeSymbol)] = JSONstringify(x)
       /\ FacadeLoad
            => /\ localStorage' = localStorage
               /\ last'.ret = OverlayStorage_load(localStorage, storeAccess, facadeSymbol).ret
       /\ FacadeClear
            => /\ OtherKeysKept
               /\ ~last'.raised => localStorage'[getStorageKey(facadeSymbol)] = NoItem
       /\ SyncToCloudCall
            => /\ localStorage' = localStorage
               /\ pendingSync' = Append(pendingSync,
                                    [method |-> "upload", symbol |-> facadeSymbol,
                                     payload |-> OverlayStorage_load(localStorage, storeAccess, facadeSymbol).ret])
       /\ SyncFromCloudCall
            => /\ localStorage' = localStorage
               /\ pendingSync' = Append(pendingSync,
                                    [method |-> "download", symbol |-> facadeSymbol,
                                     payload |-> Void])
       /\ \A i \in 1..Len(pendingSync) : DownloadResolve(i) => OtherKeysKept]_vars

\* The facade was bound to GOOGL and a save went to GOOGL's key while AAPL's
\* key keeps other records.
C31_Witness ==
    /\ facadeSymbol = "GOOGL"
    /\ last.op = "save"
    /\ last.symbol = "GOOGL"
    /\ ~last.raised
    /\ localStorage[getStorageKey("GOOGL")] = JSONstringify(last.arg)
    /\ localStorage[getStorageKey("AAPL")].json = "array"
    /\ localStorage[getStorageKey("AAPL")] # localStorage[getStorageKey("GOOGL")]

\* C35 as stated: when a download asked for symbol S resolves, every key but
\* S's is as it was, also when the facade was bound to another symbol T while
\* the download was pending: T's stored records are unchanged.
C35_AsStated ==
    [][\A i \in 1..Len(pendingSync) :
         (pendingSync[i].method = "download" /\ DownloadResolve(i))
         => \A t \in Symbols \ {pendingSync[i].symbol} :
              localStorage'[getStorageKey(t)] = localStorage[getStorageKey(t)]]_vars

\* What the code keeps: the download of S is saved under the key of the
\* symbol bound when it resolves, and S's key is written only if S is still
\* bound.
C35_SavedUnderBound ==
    [][\A i \in 1..Len(pendingSync) :
         (pendingSync[i].method = "download" /\ DownloadResolve(i))
         => /\ OtherKeysKept
            /\ ~last'.raised
                 => localStorage'[getStorageKey(facadeSymbol)]
                      = JSONstringify(ProviderDownload(cloud, pendingSync[i].symbol))]_vars

----------------------------------------------------------------------------
(* Claims about the auto-save, checked under SpecLive *)

\* The interval set by startAutoSave keeps firing for as long as it is set.
SpecLive == Init /\ [][Next]_vars /\ WF_vars(Tick)

\* Every tracked overlay the chart holds has, under the key of the symbol
\* shown, the record of its present fields.
Reflected ==
    \A i \in 1..Len(overlayMap) :
        HasOverlay(engine, overlayMap[i].key)
        => \E j \in 1..Len(StoredRecs(localStorage, symbolTicker)) :
             StoredRecs(localStorage, symbolTicker)[j]
               = StripUndefined(serializeOverlay(
                                  getOverlayById(engine, overlayMap[i].key)))

\* The store would refuse the write of the next tick.
TickRefused ==
    LET k == TickResult
    IN k.writes # <<>> /\ ~k.writes[Len(k.writes)].accepted

\* C17 as stated: while the component stays mounted with persistence enabled
\* and the symbol shown stays the same, the overlays created and the changes
\* made to tracked overlays are eventually in the records stored under that
\* symbol's key, as long as the timer fires and the store accepts the writes.
C17_AsStated ==
    \A s \in Symbols :
        (mounted /\ enabled /\ symbolTicker = s)
        ~> (Reflected \/ ~mounted \/ symbolTicker # s \/ TickRefused)

\* ENABLED <<Tick>>_vars as a state predicate: the interval is set and the
\* save would change the tracked map, the store or the ids a tick has saved.
TickChanges ==
    /\ liveIntervals > Len(others)
    /\ LET k == TickResult
       IN \/ k.map # overlayMap
          \/ k.store # localStorage
          \/ ~(drawnHere \cap AcceptedIds(k.writes) \subseteq tickSaved)

\* SpecLive with the fairness of the tick written out.
SpecLiveWritten ==
    Init /\ [][Next]_vars /\ ([]<>~TickChanges \/ []<><<Tick>>_vars)

\* Under SpecLiveWritten: C17 holds of the sessions in which the store is
\* bound to the symbol shown.
C17_BoundToShown ==
    \A s \in Symbols :
        (mounted /\ enabled /\ symbolTicker = s)
        ~> (Reflected \/ ~mounted \/ symbolTicker # s \/ TickRefused
              \/ storageSymbol # symbolTicker)

----------------------------------------------------------------------------
(* Claims about saveOverlays and the tracked map, checked under Spec *)

\* saveOverlays run again on what a handler left, with nothing in between.
SavedAgain(k) == saveOverlays([k EXCEPT !.writes = <<>>])

\* C18: a tick that saves, followed at once by a second save, hands the store
\* the same records in the same order both times, leaves the store as the
\* first save left it, and neither save touches the key of another symbol.
C18_SaveTwice ==
    [][(Tick /\ Len(overlayMap) > 0 /\ enabled)
       => LET k1 == TickResult
              k2 == SavedAgain(k1)
          IN /\ Len(k1.writes) = 1 /\ Len(k2.writes) = 1
             /\ k2.writes[1].value = k1.writes[1].value
             /\ k2.writes[1].symbol = k1.writes[1].symbol
             /\ k2.writes[1].accepted = k1.writes[1].accepted
             /\ k2.store = k1.store
             /\ k2.map = k1.map
             /\ \A s \in Symbols \ {storageSymbol} :
                  /\ k1.store[getStorageKey(s)] = localStorage[getStorageKey(s)]
                  /\ k2.store[getStorageKey(s)] = localStorage[getStorageKey(s)]]_vars

\* A tick has written three tracked overlays, one of them changed since it
\* was tracked, and the store holds their records.
C18_Witness ==
    /\ mounted
    /\ Len(overlayMap) = 3
    /\ tickSaved # {}
    /\ Len(StoredRecs(localStorage, storageSymbol)) = 3
    /\ \E i \in 1..Len(overlayMap) : overlayMap[i].val.lock

\* The ids of the records of the last save of a handler, accepted or not.
WrittenIds(writes) ==
    IF writes = <<>> THEN {}
    ELSE {writes[Len(writes)].value.recs[i].id :
            i \in 1..Len(writes[Len(writes)].value.recs)}

\* C19 as stated: when a tick saves, every tracked id whose overlay the
\* chart no longer holds leaves the tracked map and gets no record in what
\* is written, so that after the save every tracked id is the id of an
\* overlay of the chart.
C19_AsStated ==
    [][(Tick /\ enabled /\ Len(overlayMap) > 0)
       => /\ \A id \in MapKeys(overlayMap) :
               ~HasOverlay(engine, id)
               => /\ id \notin MapKeys(overlayMap')
                  /\ id \notin WrittenIds(TickResult.writes)
          /\ \A id \in MapKeys(overlayMap') : HasOverlay(engine', id)]_vars

\* What the save does with them: the entry stays as it was last refreshed and
\* its record is written again.
C19_StaleKept ==
    [][(Tick /\ enabled /\ Len(overlayMap) > 0)
       => \A i \in 1..Len(overlayMap) :
            ~HasOverlay(engine, overlayMap[i].key)
            => /\ overlayMap'[i] = overlayMap[i]
               /\ overlayMap[i].key \in WrittenIds(TickResult.writes)]_vars

\* Every entry of a tracked map is kept under the id of its overlay, and no
\* two entries have the same key.
KeyedById(m) ==
    /\ \A i \in 1..Len(m) : m[i].key = m[i].val.id
    /\ \A i, j \in 1..Len(m) : i # j => m[i].key # m[j].key

\* No save of a handler hands the store two records of the same id.
DistinctIds(writes) ==
    \A w \in 1..Len(writes) :
        \A i, j \in 1..Len(writes[w].value.recs) :
            i # j => writes[w].value.recs[i].id # writes[w].value.recs[j].id

\* C20: after every step the key of each tracked entry is the id of the
\* overlay kept under it, and no record set a handler writes (on a tick, a
\* removal, a change of symbol or period, a mount, the end of a history
\* request) has two records of the same id.
C20_KeyedById ==
    [][/\ KeyedById(overlayMap')
       /\ Tick => DistinctIds(TickResult.writes)
       /\ \A g \in GroupIds : Remove(g) => DistinctIds(RemoveResult(g).writes)
       /\ \A g \in DrawingClicks : Draw(g) => DistinctIds(DrawResult(g).writes)
       /\ \A s \in Symbols : Mount(s) => DistinctIds(MountResult(s).writes)
       /\ \A t \in Symbols :
            (mounted /\ RunEffect(t) /\ effectSubscribed /\ ~loading)
            => DistinctIds(symbolPeriodEffect(K, prev, t).writes)
       /\ \A i \in 1..Len(pending) :
            HistoryResolve(i) => DistinctIds(ResolveResult(i).writes)
       /\ \A s \in Symbols :
            \A i, j \in 1..Len(StoredRecs(localStorage', s)) :
                i # j => StoredRecs(localStorage', s)[i].id
                           # StoredRecs(localStorage', s)[j].id]_vars

\* A drawn overlay is tracked next to the two loaded ones and the three
\* records were written and accepted.
C20_Witness ==
    /\ mounted
    /\ drawnHere # {}
    /\ drawnHere \subseteq MapKeys(overlayMap)
    /\ drawnHere \subseteq StoredIds(localStorage, storageSymbol)
    /\ Cardinality(StoredIds(localStorage, storageSymbol)) = 3
    /\ Cardinality(MapKeys(overlayMap)) = 3

----------------------------------------------------------------------------
(* Claims about the component's handlers, checked under Spec *)

\* C21: with persistence disabled no step of the component writes the local
\* store or loads from it (mount, draw, removal, a click on the lock, visible
\* or mode switch, change of symbol or period, end of a history request,
\* unmount), no interval is set, and the tracked map is empty after every
\* step. Only the host's own clear of a key or save under one changes the
\* store.
C21_DisabledInert ==
    [][~enabled
       => /\ OtherWrites \/ localStorage' = localStorage
          /\ Unmount => localStorage' = localStorage
          /\ overlayMap' = <<>>
          /\ ~autoSaveIntervalId'
          /\ liveIntervals' = 0
          /\ ~ENABLED Tick
          /\ \A s \in Symbols :
               Mount(s) => MountResult(s).reads = <<>> /\ MountResult(s).writes = <<>>
          /\ \A g \in DrawingClicks :
               Draw(g) => DrawResult(g).reads = <<>> /\ DrawResult(g).writes = <<>>
          /\ \A g \in GroupIds :
               Remove(g) => RemoveResult(g).reads = <<>> /\ RemoveResult(g).writes = <<>>
          /\ \A b \in BOOLEAN :
               /\ LockChange(b)
                    => onLockChange(K, b).reads = <<>> /\ onLockChange(K, b).writes = <<>>
               /\ VisibleChange(b)
                    => /\ onVisibleChange(K, b).reads = <<>>
                       /\ onVisibleChange(K, b).writes = <<>>
          /\ \A m \in MagnetModes \cup {"normal"} :
               (ModeChange(m) \/ ModeItem(m))
               => onModeChange(K, m).reads = <<>> /\ onModeChange(K, m).writes = <<>>
          /\ \A t \in Symbols :
               (mounted /\ RunEffect(t) /\ effectSubscribed /\ ~loading)
               => /\ symbolPeriodEffect(K, prev, t).reads = <<>>
                  /\ symbolPeriodEffect(K, prev, t).writes = <<>>
          /\ \A i \in 1..Len(pending) :
               HistoryResolve(i)
               => ResolveResult(i).reads = <<>> /\ ResolveResult(i).writes = <<>>]_vars

\* Persistence is disabled; the user drew an overlay and clicked the bar's
\* visible switch: the chart holds the drawing, invisible, nothing is
\* tracked and no interval is set.
C21_Witness ==
    /\ ~enabled
    /\ mounted
    /\ nextId > 0
    /\ sideSteps = <<"bar">>
    /\ ~barVisible
    /\ \E o \in engine : ~o.visible
    /\ overlayMap = <<>>
    /\ liveIntervals = 0

\* C22 as stated: a change of the symbol shown from S to T of another ticker,
\* with persistence enabled, is one step that empties the chart, empties the
\* tracked map, writes the empty record set under S's key and then binds the
\* facade to T; T's key is not written.
C22_AsStated ==
    [][\A t \in Symbols :
         (SetSymbol(t) /\ enabled /\ t # symbolTicker)
         => /\ engine' = {}
            /\ overlayMap' = <<>>
            /\ storageSymbol' = t
            /\ localStorage'[getStorageKey(t)] = localStorage[getStorageKey(t)]
            /\ localStorage'[getStorageKey(symbolTicker)]
                 \in {localStorage[getStorageKey(symbolTicker)],
                      JSONstringify(EmptyArr)}]_vars

\* What holds of the changes the effect is run for: the facade was bound to
\* S, the one save of the step is the empty set under S's key, made before
\* the facade is bound to T.
C22_WhenApplied ==
    [][\A t \in Symbols :
         (SetSymbol(t) /\ enabled /\ t # symbolTicker /\ effectSubscribed /\ ~loading)
         => LET k == symbolPeriodEffect(K, prev, t)
            IN /\ prev = symbolTicker /\ storageSymbol = symbolTicker
               /\ engine' = {}
               /\ overlayMap' = <<>>
               /\ storageSymbol' = t
               /\ Len(k.writes) = 1
               /\ k.writes[1].symbol = symbolTicker
               /\ k.writes[1].value = EmptyArr
               /\ k.reads = <<>>
               /\ localStorage'[getStorageKey(t)] = localStorage[getStorageKey(t)]
               /\ k.writes[1].accepted
                    => localStorage'[getStorageKey(symbolTicker)]
                         = JSONstringify(EmptyArr)]_vars

\* C23 as stated: while the component is mounted with persistence enabled,
\* between the steps the facade is bound to the ticker of the symbol shown,
\* whether or not a change arrived while a history request was in flight, and
\* the effect still answers to changes of symbol.
C23_AsStated ==
    (mounted /\ enabled) => (storageSymbol = symbolTicker /\ effectSubscribed)

\* What holds instead: the facade is bound to the ticker the effect last
\* ran for, and differs from the symbol shown only once the effect has
\* stopped answering.
C23_BoundToLastRun ==
    (mounted /\ enabled)
    => /\ storageSymbol = prev
       /\ storageSymbol # symbolTicker => ~effectSubscribed

\* C24: a tick with a non-empty tracked map makes one save, under the key of
\* the symbol the facade is bound to, of one record per tracked id in the
\* order of the map, whatever was saved before, and touches no other key; a
\* tick with an empty tracked map saves nothing and leaves the store as it is.
C24_TickWritesAll ==
    [][(Tick /\ enabled)
       => LET k == TickResult
          IN IF Len(overlayMap) > 0
             THEN /\ Len(k.writes) = 1
                  /\ k.writes[1].symbol = storageSymbol
                  /\ Len(k.writes[1].value.recs) = Len(overlayMap)
                  /\ \A i \in 1..Len(overlayMap) :
                       k.writes[1].value.recs[i].id = overlayMap[i].key
                  /\ \A s \in Symbols \ {storageSymbol} :
                       localStorage'[getStorageKey(s)] = localStorage[getStorageKey(s)]
                  /\ localStorage'[getStorageKey(storageSymbol)]
                       = IF k.writes[1].accepted
                         THEN JSONstringify(k.writes[1].value)
                         ELSE localStorage[getStorageKey(storageSymbol)]
             ELSE /\ k.writes = <<>>
                  /\ localStorage' = localStorage]_vars

\* On GOOGL, which had no records, a tick has written the one overlay drawn
\* there, and the interval is still set.
C24_Witness ==
    /\ mounted
    /\ liveIntervals > 0
    /\ storageSymbol = "GOOGL"
    /\ Len(overlayMap) = 1
    /\ tickSaved = MapKeys(overlayMap)
    /\ StoredIds(localStorage, "GOOGL") = tickSaved

\* Every record of the saves logged in writes that belongs to an overlay of
\* chart e is the serialization of that overlay as e holds it.
WritesLive(writes, e) ==
    \A w \in 1..Len(writes) :
        \A i \in 1..Len(writes[w].value.recs) :
            HasOverlay(e, writes[w].value.recs[i].id)
            => writes[w].value.recs[i]
                 = serializeOverlay(getOverlayById(e, writes[w].value.recs[i].id))

\* C25: in every set saveOverlays writes, on a tick or on a removal, the
\* record of each tracked id whose overlay the chart holds is the
\* serialization of the overlay as the chart holds it at that moment, lock
\* as last changed, and the tracked entry is refreshed to it.
C25_WritesLiveState ==
    [][/\ (Tick /\ enabled /\ Len(overlayMap) > 0)
            => LET writes == TickResult.writes
               IN /\ WritesLive(writes, engine)
                  /\ \A i \in 1..Len(overlayMap) :
                       HasOverlay(engine, overlayMap[i].key)
                       => /\ overlayMap'[i].val
                               = getOverlayById(engine, overlayMap[i].key)
                          /\ writes[1].value.recs[i]
                               = serializeOverlay(
                                   getOverlayById(engine, overlayMap[i].key))
       /\ \A g \in GroupIds :
            (Remove(g) /\ enabled)
            => WritesLive(RemoveResult(g).writes, removeOverlayGroup(engine, g))]_vars

\* An overlay that was tracked with its first points was moved on the chart
\* afterwards, and a save has stored it with the points it was moved to.
C25_Witness ==
    /\ mounted
    /\ sideSteps = <<"chart">>
    /\ \E i \in 1..Len(StoredRecs(localStorage, storageSymbol)) :
         /\ StoredRecs(localStorage, storageSymbol)[i].id \in MapKeys(overlayMap)
         /\ StoredRecs(localStorage, storageSymbol)[i].points = MovedPoints

\* The same for the bar's switches: a tracked overlay that was loaded
\* unlocked, visible and in normal mode is stored as the click left it.
C25_SwitchStored ==
    /\ mounted
    /\ sideSteps = <<"bar">>
    /\ Len(overlayMap) = 2
    /\ \E i \in 1..Len(StoredRecs(localStorage, storageSymbol)) :
         /\ StoredRecs(localStorage, storageSymbol)[i].id = overlayMap[1].key
         /\ \/ StoredRecs(localStorage, storageSymbol)[i].lock
            \/ ~StoredRecs(localStorage, storageSymbol)[i].visible
            \/ StoredRecs(localStorage, storageSymbol)[i].mode \in MagnetModes

\* C26: when the user starts a drawing, with persistence enabled, the id the
\* chart returns is tracked with the overlay the chart holds for it, every
\* entry tracked before stays where it was, and the step saves nothing and
\* loads nothing: the store is as before.
C26_DrawTracksOnly ==
    [][\A g \in DrawingClicks :
         (Draw(g) /\ enabled)
         => LET k == DrawResult(g)
                id == GeneratedId(nextId + 1)
            IN /\ HasOverlay(engine', id)
               /\ overlayMap' = Append(overlayMap,
                                       [key |-> id, val |-> getOverlayById(engine', id)])
               /\ engine \subseteq engine'
               /\ k.writes = <<>>
               /\ k.reads = <<>>
               /\ localStorage' = localStorage]_vars

\* The drawing is tracked behind the two loaded overlays and no record of it
\* is stored yet.
C26_Witness ==
    /\ mounted
    /\ enabled
    /\ Len(overlayMap) = 3
    /\ overlayMap[3].key \in drawnHere
    /\ overlayMap[3].key \notin StoredIds(localStorage, storageSymbol)
    /\ Cardinality(StoredIds(localStorage, storageSymbol)) = 2

\* C27: a click on the drawing bar's lock, visible or mode switch, or on an
\* item of its mode list, gives every overlay of the chart the new lock,
\* visibility or mode and changes nothing else of it; the tracked ids are the
\* same before and after, in the same order, every tracked object is the
\* object tracked before or the chart's overlay of its id, and the store is
\* not written: the handler saves nothing and loads nothing.
SwitchClick ==
    \/ \E b \in BOOLEAN : LockChange(b)
    \/ \E b \in BOOLEAN : VisibleChange(b)
    \/ \E m \in MagnetModes \cup {"normal"} : ModeChange(m)
    \/ \E m \in MagnetModes : ModeItem(m)

C27_SwitchOnlyOverrides ==
    [][/\ SwitchClick
          => /\ MapKeys(overlayMap') = MapKeys(overlayMap)
             /\ Len(overlayMap') = Len(overlayMap)
             /\ \A i \in 1..Len(overlayMap) :
                  /\ overlayMap'[i].key = overlayMap[i].key
                  /\ \/ overlayMap'[i].val = overlayMap[i].val
                     \/ /\ HasOverlay(engine', overlayMap[i].key)
                        /\ overlayMap'[i].val = getOverlayById(engine', overlayMap[i].key)
             /\ localStorage' = localStorage
             /\ {o.id : o \in engine'} = {o.id : o \in engine}
       /\ \A b \in BOOLEAN :
            /\ LockChange(b)
               => /\ onLockChange(K, b).writes = <<>>
                  /\ onLockChange(K, b).reads = <<>>
                  /\ \A o \in engine :
                       getOverlayById(engine', o.id) = [o EXCEPT !.lock = b]
            /\ VisibleChange(b)
               => /\ onVisibleChange(K, b).writes = <<>>
                  /\ onVisibleChange(K, b).reads = <<>>
                  /\ \A o \in engine :
                       getOverlayById(engine', o.id) = [o EXCEPT !.visible = b]
       /\ \A m \in MagnetModes \cup {"normal"} :
            (ModeChange(m) \/ (m \in MagnetModes /\ ModeItem(m)))
            => /\ onModeChange(K, m).writes = <<>>
               /\ onModeChange(K, m).reads = <<>>
               /\ \A o \in engine :
                    getOverlayById(engine', o.id) = [o EXCEPT !.mode = m]]_vars

\* With persistence enabled the visible switch has acted on a tracked overlay
\* that is stored visible: the chart holds it invisible, it is tracked as
\* before, and its stored record is as before.
C27_Witness ==
    /\ mounted
    /\ enabled
    /\ sideSteps = <<"bar">>
    /\ ~barVisible
    /\ \E i \in 1..Len(overlayMap) :
         /\ HasOverlay(engine, overlayMap[i].key)
         /\ ~getOverlayById(engine, overlayMap[i].key).visible
         /\ \E j \in 1..Len(StoredRecs(localStorage, storageSymbol)) :
              /\ StoredRecs(localStorage, storageSymbol)[j].id = overlayMap[i].key
              /\ StoredRecs(localStorage, storageSymbol)[j].visible

\* C28: unmount writes nothing: the store right after it is the store right
\* before it, key by key, so what changed in the chart since the last save
\* stays unsaved; the tracked map is left as it was.
C28_UnmountWritesNothing ==
    [][Unmount
       => /\ localStorage' = localStorage
          /\ overlayMap' = overlayMap
          /\ \A s \in Symbols :
               StoredRecs(localStorage', s) = StoredRecs(localStorage, s)]_vars

\* The component is unmounted, with persistence enabled, and the overlay the
\* user drew before has no record in the store.
C28_Witness ==
    /\ ~mounted
    /\ widget = "disposed"
    /\ enabled
    /\ storeAccess
    /\ drawnHere # {}
    /\ drawnHere \subseteq MapKeys(overlayMap)
    /\ drawnHere \cap StoredIds(localStorage, storageSymbol) = {}

\* The intervals of the component: those set on the page less those of the
\* further charts the page has built.
OwnIntervals == liveIntervals - Len(others)

\* C29: after every step at most one auto-save interval of the component is
\* set, and only while the component is mounted with persistence enabled:
\* mount sets one when persistence is enabled and onMount reached
\* startAutoSave, no other step sets one, unmount clears the one that is set
\* and the component's handle with it; while the component is not mounted no
\* tick of it can run and no step of it writes the store.
C29_OneInterval ==
    [][/\ OwnIntervals' \in {0, 1}
       /\ autoSaveIntervalId' = (OwnIntervals' = 1)
       /\ autoSaveIntervalId' => (mounted' /\ enabled)
       /\ \A s \in Symbols :
            Mount(s) => /\ liveIntervals' = liveIntervals
                            + (IF enabled /\ ~MountResult(s).threw THEN 1 ELSE 0)
                        /\ others' = others
       /\ Unmount => /\ OwnIntervals' = 0
                     /\ liveIntervals' = liveIntervals - (IF autoSaveIntervalId THEN 1 ELSE 0)
                     /\ others' = others
       /\ (\A s \in Symbols : ~Mount(s)) => OwnIntervals' <= OwnIntervals
       /\ ~mounted' => ~(ENABLED Tick)'
       /\ (~mounted /\ ~mounted') => (OtherWrites \/ localStorage' = localStorage)]_vars

\* A second component has been unmounted after a tick of its interval saved a
\* drawing; no interval is left.
C29_Witness ==
    /\ ~mounted
    /\ enabled
    /\ mounts = 2
    /\ tickSaved # {}
    /\ liveIntervals = 0
    /\ ~autoSaveIntervalId

\* C30 as stated: when a history request that was pending at unmount
\* resolves, the component loads nothing from the store, asks the disposed
\* chart for nothing, and leaves the chart and the tracked map as they were.
C30_AsStated ==
    [][\A i \in 1..Len(pending) :
         (HistoryResolve(i) /\ ~mounted)
         => /\ ResolveResult(i).reads = <<>>
            /\ engine' = engine
            /\ overlayMap' = overlayMap]_vars

\* What is kept after unmount: no step of the component writes the store, and
\* only the end of a pending request of a change of symbol loads.
C30_OnlyPendingLoads ==
    [][~mounted /\ ~mounted'
       => /\ OtherWrites \/ localStorage' = localStorage
          /\ (engine' # engine \/ overlayMap' # overlayMap)
               => \E i \in 1..Len(pending) :
                    /\ HistoryResolve(i)
                    /\ pending[i].doLoad
                    /\ enabled]_vars

\* C32: with a cloudSyncProvider in the options, no step of the component
\* calls upload or download: the handlers' logs of provider calls are empty
\* on mount, tick, draw, removal, a click on the lock, visible or mode
\* switch, change of symbol or period and at the end of a history request,
\* no call is in flight after any step, unmount included, and the provider
\* holds what it held.
C32_NoProviderCall ==
    [][hasProvider
       => /\ pendingSync' = <<>>
          /\ cloud' = cloud
          /\ \A s \in Symbols : Mount(s) => MountResult(s).calls = <<>>
          /\ Tick => TickResult.calls = <<>>
          /\ \A g \in DrawingClicks : Draw(g) => DrawResult(g).calls = <<>>
          /\ \A g \in GroupIds : Remove(g) => RemoveResult(g).calls = <<>>
          /\ \A b \in BOOLEAN :
               /\ LockChange(b) => onLockChange(K, b).calls = <<>>
               /\ VisibleChange(b) => onVisibleChange(K, b).calls = <<>>
          /\ \A m \in MagnetModes \cup {"normal"} :
               (ModeChange(m) \/ ModeItem(m)) => onModeChange(K, m).calls = <<>>
          /\ \A t \in Symbols :
               (mounted /\ RunEffect(t) /\ effectSubscribed /\ ~loading)
               => symbolPeriodEffect(K, prev, t).calls = <<>>
          /\ \A i \in 1..Len(pending) :
               HistoryResolve(i) => ResolveResult(i).calls = <<>>]_vars

\* With a provider in the options and persistence enabled, the user has
\* clicked the bar's visible switch and a tick has then saved the tracked
\* overlays, invisible; the provider was never called.
C32_Witness ==
    /\ hasProvider
    /\ enabled
    /\ mounted
    /\ sideSteps = <<"bar">>
    /\ ~barVisible
    /\ Len(overlayMap) > 0
    /\ \E i \in 1..Len(StoredRecs(localStorage, storageSymbol)) :
         /\ StoredRecs(localStorage, storageSymbol)[i].id \in MapKeys(overlayMap)
         /\ ~StoredRecs(localStorage, storageSymbol)[i].visible
    /\ cloud = [s \in Symbols |-> Void]
    /\ pendingSync = <<>>

\* C33 as stated: with persistence enabled every applied change to another
\* ticker is followed by exactly one load from the store: when the history
\* request the change left behind ends, resolved or rejected, the handler that
\* ends it has read the store once.
C33_AsStated ==
    [][\A i \in 1..Len(pending) :
         (enabled /\ mounted /\ loading /\ pending[i].kind = "new" /\ pending[i].doLoad)
         => /\ HistoryResolve(i) => Len(ResolveResult(i).reads) = 1
            /\ HistoryReject(i) => Len(RejectResult(i).reads) = 1]_vars

\* What the code does: with persistence enabled the component loads from the
\* store once on mount, from the key of the mounted symbol, and once for each
\* applied change to another ticker whose history request resolves, at that
\* moment, from the key of the symbol the store is bound to by then; a tick, a
\* draw, a removal, the effect itself, a rejected history request and the end
\* of any other history request (first load, change of period, more data)
\* load nothing. Each applied change to another ticker leaves exactly one
\* such request behind.
C33_ReadsOnLoadOnly ==
    [][enabled
       => /\ \A s \in Symbols :
               Mount(s) => MountResult(s).reads = <<getStorageKey(s)>>
          /\ Tick => TickResult.reads = <<>>
          /\ \A g \in DrawingClicks : Draw(g) => DrawResult(g).reads = <<>>
          /\ \A g \in GroupIds : Remove(g) => RemoveResult(g).reads = <<>>
          /\ \A b \in BOOLEAN :
               /\ LockChange(b) => onLockChange(K, b).reads = <<>>
               /\ VisibleChange(b) => onVisibleChange(K, b).reads = <<>>
          /\ \A m \in MagnetModes \cup {"normal"} :
               (ModeChange(m) \/ ModeItem(m)) => onModeChange(K, m).reads = <<>>
          /\ \A t \in Symbols :
               (mounted /\ RunEffect(t) /\ effectSubscribed /\ ~loading)
               => /\ symbolPeriodEffect(K, prev, t).reads = <<>>
                  /\ Len(pending') = Len(pending) + 1
                  /\ pending'[Len(pending')].doLoad = (t # symbolTicker)
                  /\ \A i \in 1..Len(pending) : pending'[i] = pending[i]
          /\ \A i \in 1..Len(pending) :
               HistoryResolve(i)
               => /\ ResolveResult(i).reads
                       = IF pending[i].doLoad
                         THEN <<getStorageKey(storageSymbol)>> ELSE <<>>
                  /\ pending' = Drop(pending, i)
          /\ \A i \in 1..Len(pending) :
               HistoryReject(i) => RejectResult(i).reads = <<>>
          /\ \A i \in 1..Len(pending') :
               pending'[i].doLoad
               => \/ \E j \in 1..Len(pending) : pending[j] = pending'[i]
                  \/ \E t \in Symbols \ {symbolTicker} :
                       mounted /\ RunEffect(t) /\ effectSubscribed /\ ~loading]_vars

\* C34 as stated: while the history request of a change to symbol T is
\* pending, the facade being bound to T and T's records not yet loaded, no
\* step of the component changes what is stored under T's key.
C34_AsStated ==
    [][\A i \in 1..Len(pending) :
         (enabled /\ pending[i].doLoad /\ pending' = pending /\ ~OtherWrites)
         => localStorage'[getStorageKey(pending[i].ticker)]
              = localStorage[getStorageKey(pending[i].ticker)]]_vars

\* What holds in that window: T's key is written only by a tick or a removal
\* with a non-empty tracked map, the facade being bound to T.
C34_WindowWrites ==
    [][\A i \in 1..Len(pending) :
         (/\ enabled /\ pending[i].doLoad /\ pending' = pending /\ ~OtherWrites
          /\ localStorage'[getStorageKey(pending[i].ticker)]
               # localStorage[getStorageKey(pending[i].ticker)])
         => /\ storageSymbol = pending[i].ticker
            /\ overlayMap # <<>>
            /\ Tick \/ \E g \in GroupIds : Remove(g)]_vars

\* The saves logged in writes all go to symbol s and carry only ids of ids.
WritesWithin(writes, s, ids) ==
    \A w \in 1..Len(writes) :
        /\ writes[w].symbol = s
        /\ \A i \in 1..Len(writes[w].value.recs) : writes[w].value.recs[i].id \in ids

\* C36: with persistence enabled, an id enters the tracked map only as a
\* drawing the user starts, the binding staying as it is, or as a record
\* loaded from the key of the symbol bound; a step that binds the facade to
\* another symbol leaves in the map nothing but what it loaded from that
\* symbol's key; and every save goes to the key of the symbol bound with
\* records of tracked ids only. So what is written under a key was drawn or
\* loaded while the facade was bound to its symbol.
C36_NoLeak ==
    [][enabled
       => /\ storageSymbol' # storageSymbol
               => MapKeys(overlayMap') \subseteq StoredIds(localStorage, storageSymbol')
          /\ MapKeys(overlayMap') \ MapKeys(overlayMap)
               \subseteq IF \E g \in DrawingClicks : Draw(g)
                         THEN {GeneratedId(nextId + 1)}
                         ELSE StoredIds(localStorage, storageSymbol')
          /\ (\E g \in DrawingClicks : Draw(g)) => storageSymbol' = storageSymbol
          /\ Tick => WritesWithin(TickResult.writes, storageSymbol, MapKeys(overlayMap))
          /\ \A g \in GroupIds :
               Remove(g)
               => WritesWithin(RemoveResult(g).writes, storageSymbol, MapKeys(overlayMap))
          /\ \A t \in Symbols :
               (mounted /\ RunEffect(t) /\ effectSubscribed /\ ~loading)
               => WritesWithin(symbolPeriodEffect(K, prev, t).writes, storageSymbol, {})
          /\ \A s \in Symbols : Mount(s) => MountResult(s).writes = <<>>
          /\ \A i \in 1..Len(pending) :
               HistoryResolve(i) => ResolveResult(i).writes = <<>>]_vars

\* In one session the symbol went from GOOGL to AAPL, AAPL's two records
\* were loaded, the user drew a third overlay and a tick stored the three
\* under AAPL's key; GOOGL's key holds the empty set.
C36_Witness ==
    /\ mounted
    /\ enabled
    /\ mounts = 1
    /\ storageSymbol = "AAPL"
    /\ tickSaved # {}
    /\ Cardinality(StoredIds(localStorage, "AAPL")) = 3
    /\ localStorage[getStorageKey("GOOGL")] = JSONstringify(EmptyArr)

----------------------------------------------------------------------------
\* C40: a period change, or a symbol change to an object with the ticker
\* shown, removes no overlay from the chart, leaves the tracked map and the
\* facade's symbol as they are and neither reads nor writes localStorage, in
\* the effect's run and when the history it asked for resolves.
C40_SameTickerKeeps ==
    [][/\ (SetPeriod \/ SetSymbol(symbolTicker))
            => /\ engine' = engine /\ overlayMap' = overlayMap
               /\ localStorage' = localStorage /\ storageSymbol' = storageSymbol
               /\ (effectSubscribed /\ ~loading)
                    => /\ symbolPeriodEffect(K, prev, symbolTicker).reads = <<>>
                       /\ symbolPeriodEffect(K, prev, symbolTicker).writes = <<>>
                       /\ ~pending'[Len(pending')].doLoad
       /\ \A i \in 1..Len(pending) :
            (HistoryResolve(i) /\ ~pending[i].doLoad)
               => /\ engine' = engine /\ overlayMap' = overlayMap
                  /\ localStorage' = localStorage /\ storageSymbol' = storageSymbol
                  /\ ResolveResult(i).reads = <<>>
                  /\ ResolveResult(i).writes = <<>>]_vars

\* The page was loaded on AAPL and switched to GOOGL (AAPL's key was emptied),
\* GOOGL's history arrived, an overlay is on the chart and tracked, and the
\* period (or the symbol object, to one of the same ticker) was changed: its
\* history request, which loads nothing, is in flight.
C40_Witness ==
    /\ mounted /\ enabled /\ mounts = 1
    /\ symbolTicker = "GOOGL" /\ storageSymbol = "GOOGL"
    /\ localStorage[getStorageKey("AAPL")] = JSONstringify(EmptyArr)
    /\ Len(pending) = 1 /\ pending[1].kind = "new" /\ ~pending[1].doLoad
    /\ engine # {} /\ MapKeys(overlayMap) = {o.id : o \in engine}

----------------------------------------------------------------------------
(* Claims about records the chart refuses, checked under SpecRefused *)

\* An earlier session stored three records under AAPL; the second has the
\* name of an overlay that is not registered with the chart of this page.
\* GOOGL's key holds the text null (valid JSON, no array).
PresetTextRefused(s) ==
    IF s = "AAPL"
    THEN StoredText(<<Live("a1", "drawing_tools", "horizontalStraightLine", FALSE),
                      Live("x1", "drawing_tools", "customBrush", FALSE),
                      Live("a2", "shapes", "rect", TRUE)>>)
    ELSE NullText

InitRefused ==
    /\ localStorage = [k \in StorageKeys |->
                         IF k = getStorageKey("AAPL")
                         THEN PresetTextRefused("AAPL") ELSE PresetTextRefused("GOOGL")]
    /\ foreignUsed = 0
    /\ storeAccess \in BOOLEAN
    /\ last = NoCall
    /\ saved = [s \in Symbols |-> Void]
    /\ facadeSymbol = "AAPL"
    /\ hasProvider = TRUE
    /\ cloud = [s \in Symbols |-> Void]
    /\ pendingSync = <<>>
    /\ roundTrip = NoRoundTrip
    /\ SerializerIdle
    /\ enabled \in BOOLEAN
    /\ mounted = FALSE
    /\ widget = "null"
    /\ engine = {}
    /\ overlayMap = <<>>
    /\ storageSymbol = "AAPL"
    /\ autoSaveIntervalId = FALSE
    /\ liveIntervals = 0
    /\ symbolTicker = "AAPL"
    /\ loading = FALSE
    /\ prev = NoPrev
    /\ effectSubscribed = FALSE
    /\ pending = <<>>
    /\ nextId = 0
    /\ mounts = 0
    /\ gone = {}
    /\ tickSaved = {}
    /\ drawnHere = {}
    /\ drawingBarVisible = TRUE
    /\ barLock = FALSE
    /\ barVisible = TRUE
    /\ barMode = "normal"
    /\ barMagnet = "weak_magnet"
    /\ sideSteps = <<>>
    /\ others = <<>>

SpecRefused == InitRefused /\ [][Next]_vars

\* Since the load of the first page load the user drew nothing, removed nothing
\* and changed no symbol, and nothing else acted on the chart or the store:
\* the chart holds the overlays the load created from the stored records, and
\* these are the tracked ones.
NoUserActionSinceLoad ==
    /\ enabled /\ mounted /\ mounts = 1
    /\ symbolTicker = "AAPL" /\ storageSymbol = "AAPL"
    /\ drawnHere = {} /\ gone = {}
    /\ sideSteps = <<>> /\ others = <<>>
    /\ MapKeys(overlayMap) = {o.id : o \in engine}
    /\ MapKeys(overlayMap) = {"a1", "a2"}

\* C38 as stated: an auto-save tick after a load, with no user action in
\* between, leaves the ids stored under the current symbol's key as they were
\* before the load, also when the chart refused some of the records. The tick
\* writes the tracked overlays only, so a refused record is gone from the key.
C38_AsStated ==
    [][(Tick /\ NoUserActionSinceLoad)
         => StoredIds(localStorage', storageSymbol) = StoredIds(localStorage, storageSymbol)]_vars

\* What the code does: a tick whose write is accepted leaves under the key the
\* records of the tracked overlays, those the chart created, and no other.
C38_TrackedOnlyKept ==
    [][(Tick /\ NoUserActionSinceLoad /\ AcceptedIds(TickResult.writes) # {})
         => StoredIds(localStorage', storageSymbol) = MapKeys(overlayMap)]_vars

----------------------------------------------------------------------------
\* The ids of the records whose name the chart has registered, and of the others.
RegisteredIds(recs) ==
    {recs[i].id : i \in {j \in 1..Len(recs) : recs[j].name \in RegisteredNames}}
UnregisteredIds(recs) ==
    {recs[i].id : i \in {j \in 1..Len(recs) : recs[j].name \notin RegisteredNames}}

\* C39: a load sequence that found an array of records under the key hands
\* every stored record to createOverlay; a record
\* the chart refuses raises no error and is not tracked, the handler runs on to
\* its end, and every other record is created and tracked. On a page load the
\* chart is new, so it holds and the map tracks exactly the accepted records;
\* when the history of a changed symbol resolves, the accepted records of the
\* new symbol are on the chart and tracked, and the refused ones are neither.
C39_RefusedSkipped ==
    [][/\ \A s \in Symbols :
          (Mount(s) /\ enabled /\ ~MountResult(s).threw)
             => LET recs == OverlayStorage_load(localStorage, storeAccess, s).ret.recs
                IN /\ MapKeys(overlayMap') = RegisteredIds(recs)
                   /\ {o.id : o \in engine'} = RegisteredIds(recs)
                   /\ mounted' /\ autoSaveIntervalId' /\ liveIntervals' > 0
      /\ \A i \in 1..Len(pending) :
          (HistoryResolve(i) /\ enabled /\ pending[i].kind = "new" /\ pending[i].doLoad
              /\ widget # "null" /\ ~ResolveResult(i).threw)
             => LET recs == OverlayStorage_load(localStorage, storeAccess,
                                                storageSymbol).ret.recs
                IN /\ RegisteredIds(recs) \subseteq {o.id : o \in engine'}
                   /\ RegisteredIds(recs) \ {o.id : o \in engine}
                          \subseteq MapKeys(overlayMap')
                   /\ UnregisteredIds(recs) \cap {o.id : o \in engine'} = {}
                   /\ UnregisteredIds(recs) \cap MapKeys(overlayMap') = {}
                   /\ ~loading']_vars

\* The page was loaded on AAPL, whose key holds a1, x1 and a2: the chart refused
\* x1 and created a1 and a2, the record after it included; both are tracked.
C39_Witness ==
    /\ mounted /\ enabled /\ mounts = 1 /\ storageSymbol = "AAPL"
    /\ StoredIds(localStorage, "AAPL") = {"a1", "x1", "a2"}
    /\ MapKeys(overlayMap) = {"a1", "a2"}
    /\ {o.id : o \in engine} = {"a1", "a2"}
    /\ autoSaveIntervalId

----------------------------------------------------------------------------
(* Claims about the serializer, checked under SpecSerializer *)

ScalarFields ==
    {"id", "groupId", "name", "lock", "visible", "mode", "extendData", "styles"}

PersistedPointFields == {"timestamp", "dataIndex", "value"}

\* C14: the creation request made by deserializeOverlay of the record
\* serializeOverlay made of a live overlay has the overlay's id, groupId,
\* name, lock, visible, mode, extendData and styles, and as many points, each
\* with the same timestamp / dataIndex / value as the overlay's point at that
\* place (present or absent alike).
C14_RoundTrip ==
    overlayCreate # NoCreate
    => /\ \A f \in ScalarFields : overlayCreate[f] = liveOverlay[f]
       /\ Len(overlayCreate.points) = Len(liveOverlay.points)
       /\ \A i \in 1..Len(liveOverlay.points) :
            \A f \in PersistedPointFields :
              /\ f \in DOMAIN overlayCreate.points[i]
                   <=> f \in DOMAIN liveOverlay.points[i]
              /\ f \in DOMAIN liveOverlay.points[i]
                   => overlayCreate.points[i][f] = liveOverlay.points[i][f]

\* A request was made of an overlay with two partial points, a magnet mode
\* and extendData.
C14_Witness ==
    /\ overlayCreate # NoCreate
    /\ Len(liveOverlay.points) = 2
    /\ liveOverlay.mode = "weak_magnet"
    /\ liveOverlay.extendData = "note"
    /\ liveOverlay.styles = Undefined

\* C15 as stated: each point of the record serializeOverlay makes has only
\* the properties timestamp, dataIndex and value, those the live point has,
\* with the live point's values.
C15_AsStated ==
    serialized # NoRecord
    => /\ Len(serialized.points) = Len(liveOverlay.points)
       /\ \A i \in 1..Len(serialized.points) :
            /\ DOMAIN serialized.points[i]
                 = DOMAIN liveOverlay.points[i] \cap PersistedPointFields
            /\ \A f \in DOMAIN serialized.points[i] \cap DOMAIN liveOverlay.points[i] :
                 serialized.points[i][f] = liveOverlay.points[i][f]

====
